---- MODULE Spec2Model ----
(***************************************************************************)
(* Model of tictacrs: the tabular TD-learning Player (agents/players.rs),  *)
(* the self-play Trainer (agents/trainer.rs) and the Board they play on    *)
(* (game/board.rs).                                                        *)
(*                                                                         *)
(* A compact state [Piece; 9] is a sequence of 9 pieces; cell i of the     *)
(* source (0-based) is element i+1 of the sequence (operator At).          *)
(* An f64 win probability p is the integer p * One; a rate is a pair       *)
(* <<num, den>>.  The rates of the model are dyadic, for which the f64     *)
(* arithmetic of the source is exact within the bounds of the model.       *)
(***************************************************************************)
EXTENDS Integers, Sequences, FiniteSets, TLC

VARIABLES
    player1,         \* trainer.rs: player1 (its SaveState)
    player2,         \* trainer.rs: player2 (its SaveState)
    iterations,      \* trainer.rs: iterations argument of train
    it,              \* trainer.rs: loop variable of `for it in 0..iterations`
    training_board,  \* trainer.rs: training_board (the squares of the Board)
    prev_board1,     \* trainer.rs: prev_board1
    prev_board2,     \* trainer.rs: prev_board2
    files,           \* the two save files of the output directory
    result,          \* what train returned
    pc,              \* position in train / in the single call
    last,            \* the last make_move call: its arguments and outcome
    shown            \* the last show_loosing_state call

vars == <<player1, player2, iterations, it, training_board, prev_board1,
          prev_board2, files, result, pc, last, shown>>

----------------------------------------------------------------------------
(* Bounds and constants *)

\* largest episode count passed to train
MaxIterations == 2
\* number of outcomes of one draw of the random generator
RngWidth == 2
\* file-system failures are explored in the runs of train of at most this
\* many episodes
MaxFaultIterations == 0
\* largest episode count of the runs checked for termination and of the
\* runs on players read from files
MaxFairIterations == 1
\* longest move specification handed to Board::player_move
MaxSpecLen == 3
\* largest iteration at which the annealing schedules are taken
MaxAnnealIteration == 45
\* a failed write leaves at most this many bytes in the file
MaxKeptBytes == 1
\* the capacity of the buffer of a BufWriter made by BufWriter::new
BufWriterCapacity == 8192

\* 1f64, 0f64 and 0.5f64 in the fixed-point representation of probabilities
One == 4096
Zero == 0
Half == One \div 2

\* The rates handed to Player::new, as <<num, den>>
LearningRates == {<<0, 1>>, <<3, 4>>, <<1, 1>>}

\* The rates of the two players handed to train: <<initial learning rate of
\* both, initial exploration rate of player1, of player2>>
TrainRates ==
    { <<lr, <<0, 1>>, <<0, 1>> >> : lr \in LearningRates }
    \cup { << <<3, 4>>, <<0, 1>>, <<1, 1>> >> }

----------------------------------------------------------------------------
(* game/board.rs: Piece *)

Piece == {"Empty", "X", "O"}

Sides == {"X", "O"}

CompactStates == [1..9 -> Piece]

At(compact_state, i) == compact_state[i + 1]

EmptyBoard == [i \in 1..9 |-> "Empty"]

\* compact_state[i] = piece
Put(compact_state, i, piece) == [compact_state EXCEPT ![i + 1] = piece]

\* The discriminant of a Piece (the order of the enum's variants)
Discriminant(piece) ==
    IF piece = "Empty" THEN 0 ELSE IF piece = "X" THEN 1 ELSE 2

\* A [Piece; 9] as a HashMap key: the array read as a base-3 numeral, cell 0
\* first.  Two arrays are equal iff their keys are, and the derived Ord of
\* the arrays is the order of the keys.
Key(compact_state) ==
    Discriminant(compact_state[1]) * 6561 + Discriminant(compact_state[2]) * 2187
    + Discriminant(compact_state[3]) * 729 + Discriminant(compact_state[4]) * 243
    + Discriminant(compact_state[5]) * 81 + Discriminant(compact_state[6]) * 27
    + Discriminant(compact_state[7]) * 9 + Discriminant(compact_state[8]) * 3
    + Discriminant(compact_state[9])

----------------------------------------------------------------------------
(* agents/players.rs: the winner predicates of the Player.  None is       *)
(* "None"; Some(p) is the piece p.                                         *)

check_winner_col(compact_state) ==
    LET line(c) == /\ At(compact_state, c + 0) = At(compact_state, c + 3)
                   /\ At(compact_state, c + 0) = At(compact_state, c + 6)
                   /\ At(compact_state, c + 0) # "Empty"
    IN  IF line(0) THEN At(compact_state, 0)
        ELSE IF line(1) THEN At(compact_state, 1)
        ELSE IF line(2) THEN At(compact_state, 2)
        ELSE "None"

check_winner_row(compact_state) ==
    LET line(r) == /\ At(compact_state, 3 * r + 0) = At(compact_state, 3 * r + 1)
                   /\ At(compact_state, 3 * r + 0) = At(compact_state, 3 * r + 2)
                   /\ At(compact_state, 3 * r + 0) # "Empty"
    IN  IF line(0) THEN At(compact_state, 3 * 0 + 0)
        ELSE IF line(1) THEN At(compact_state, 3 * 1 + 0)
        ELSE IF line(2) THEN At(compact_state, 3 * 2 + 0)
        ELSE "None"

\* The second branch returns compact_state[3 * 0 + 0], as the source does.
check_winner_diag(compact_state) ==
    IF /\ At(compact_state, 3 * 0 + 0) = At(compact_state, 3 * 1 + 1)
       /\ At(compact_state, 3 * 0 + 0) = At(compact_state, 3 * 2 + 2)
       /\ At(compact_state, 3 * 0 + 0) # "Empty"
    THEN At(compact_state, 3 * 0 + 0)
    ELSE IF /\ At(compact_state, 3 * 2 + 0) = At(compact_state, 3 * 1 + 1)
            /\ At(compact_state, 3 * 2 + 0) = At(compact_state, 3 * 0 + 2)
            /\ At(compact_state, 3 * 2 + 0) # "Empty"
    THEN At(compact_state, 3 * 0 + 0)
    ELSE "None"

check_winner(compact_state) ==
    IF check_winner_row(compact_state) = "None"
    THEN IF check_winner_col(compact_state) = "None"
         THEN check_winner_diag(compact_state)
         ELSE check_winner_col(compact_state)
    ELSE check_winner_row(compact_state)

check_full(compact_state) ==
    \A i \in 0..8 : At(compact_state, i) # "Empty"

\* find_new_state_prob without its last line: a state that is neither won
\* nor full is given 0 like a lost one
find_new_state_prob_no_default(piece, compact_state) ==
    LET winner == check_winner(compact_state)
    IN  IF winner # "None" /\ winner = piece THEN One ELSE Zero

\* Calculates the winning probability for a previously unseen state
find_new_state_prob(piece, compact_state) ==
    IF check_winner(compact_state) # "None"
    THEN IF piece = check_winner(compact_state) THEN One ELSE Zero
    ELSE IF check_full(compact_state) THEN Zero
    ELSE Half

----------------------------------------------------------------------------
(* annealing.rs / main.rs: the step-decay schedules.  A rate is the pair   *)
(* <<num, den>> standing for num / den; drop_rate 0.9 is 9 / 10.           *)

RECURSIVE powi(_, _)
powi(base, n) == IF n = 0 THEN 1 ELSE base * powi(base, n - 1)

\* the schedule with the number of steps as a factor instead of an exponent
learning_rate_function_linear(initial_rate, iteration) ==
    LET step_size == 20
    IN  <<initial_rate[1] * 9 * (iteration \div step_size),
          initial_rate[2] * 10>>

learning_rate_function(initial_rate, iteration) ==
    LET step_size == 20
    IN  <<initial_rate[1] * powi(9, iteration \div step_size),
          initial_rate[2] * powi(10, iteration \div step_size)>>

\* the schedule with the number of steps rounded up instead of down
exploration_rate_function_rounded_up(initial_rate, iteration) ==
    LET step_size == 10
    IN  <<initial_rate[1] * powi(9, (iteration + step_size - 1) \div step_size),
          initial_rate[2] * powi(10, (iteration + step_size - 1) \div step_size)>>

exploration_rate_function(initial_rate, iteration) ==
    LET step_size == 10
    IN  <<initial_rate[1] * powi(9, iteration \div step_size),
          initial_rate[2] * powi(10, iteration \div step_size)>>

----------------------------------------------------------------------------
(* agents/players.rs: Player.  A Player is its SaveState record; the two   *)
(* annealing functions are the schedules above and the generator is the    *)
(* source of the draws handed to make_move.                                *)

\* Player::new
\* the constructor with the two rates stored in each other's field
new_rates_swapped(piece, initial_learning_rate, initial_exploration_rate) ==
    [piece |-> piece, state_space |-> [k \in {} |-> Zero],
     initial_learning_rate |-> initial_exploration_rate,
     initial_exploration_rate |-> initial_learning_rate,
     iteration |-> 0]

new(piece, initial_learning_rate, initial_exploration_rate) ==
    [piece |-> piece,
     state_space |-> [k \in {} |-> Zero],
     initial_learning_rate |-> initial_learning_rate,
     initial_exploration_rate |-> initial_exploration_rate,
     iteration |-> 0]

get_player_piece(self) == self.piece

\* the counter stepped by one instead of set
update_iteration_stepped(self, new_iter) ==
    [self EXCEPT !.iteration = @ + 1]

update_iteration(self, new_iter) == [self EXCEPT !.iteration = new_iter]

\* HashMap::insert of a key that is absent
Insert(state_space, key, value) ==
    [k \in DOMAIN state_space \cup {key} |->
        IF k = key THEN value ELSE state_space[k]]

\* the lookup without the assignment that empties the square again
get_move_probability_not_restored(self, compact_state, potential_move, piece) ==
    LET idx == potential_move[1] * 3 + potential_move[2]
    IN  IF At(compact_state, idx) # "Empty"
        THEN [panic |-> TRUE, self |-> self, compact_state |-> compact_state,
              probability |-> Zero, evaluated |-> compact_state]
        ELSE CHOOSE out \in
            { [panic |-> FALSE,
               self |-> [self EXCEPT !.state_space = state_space],
               compact_state |-> placed,
               probability |-> state_space[Key(placed)],
               evaluated |-> placed] :
              placed \in { Put(compact_state, idx, piece) },
              state_space \in
                { IF Key(Put(compact_state, idx, piece))
                        \notin DOMAIN self.state_space
                  THEN Insert(self.state_space,
                              Key(Put(compact_state, idx, piece)),
                              find_new_state_prob(self.piece,
                                  Put(compact_state, idx, piece)))
                  ELSE self.state_space } } : TRUE

\* the lookup without the contains_key test: the entry is always inserted
get_move_probability_always_inserts(self, compact_state, potential_move, piece) ==
    LET idx == potential_move[1] * 3 + potential_move[2]
    IN  IF At(compact_state, idx) # "Empty"
        THEN [panic |-> TRUE, self |-> self, compact_state |-> compact_state,
              probability |-> Zero, evaluated |-> compact_state]
        ELSE CHOOSE out \in
            { [panic |-> FALSE,
               self |-> [self EXCEPT !.state_space = state_space],
               compact_state |-> Put(placed, idx, "Empty"),
               probability |-> state_space[Key(placed)],
               evaluated |-> placed] :
              placed \in { Put(compact_state, idx, piece) },
              state_space \in
                { Insert(self.state_space,
                         Key(Put(compact_state, idx, piece)),
                         find_new_state_prob(self.piece,
                             Put(compact_state, idx, piece))) } } : TRUE

\* Get the win probability for a particular move on the given board.
\* potential_move is <<row, col>>; compact_state is the caller's scratch copy,
\* handed back as the call leaves it.
get_move_probability(self, compact_state, potential_move, piece) ==
    LET idx == potential_move[1] * 3 + potential_move[2]
    IN  IF At(compact_state, idx) # "Empty"
        THEN [panic |-> TRUE, self |-> self, compact_state |-> compact_state,
              probability |-> Zero, evaluated |-> compact_state]
        ELSE CHOOSE out \in
            { [panic |-> FALSE,
               self |-> [self EXCEPT !.state_space = state_space],
               compact_state |-> Put(placed, idx, "Empty"),
               probability |-> state_space[Key(placed)],
               evaluated |-> placed] :
              placed \in { Put(compact_state, idx, piece) },
              state_space \in
                { IF Key(Put(compact_state, idx, piece))
                        \notin DOMAIN self.state_space
                  THEN Insert(self.state_space,
                              Key(Put(compact_state, idx, piece)),
                              find_new_state_prob(self.piece,
                                  Put(compact_state, idx, piece)))
                  ELSE self.state_space } } : TRUE

\* next_moves.push with the row and the column transposed
next_move_transposed(counter) == <<counter % 3, counter \div 3>>

\* the move pushed on next_moves for square `counter`
next_move(counter) == <<counter \div 3, counter % 3>>

\* Get all possible potential moves: the loop over the squares of
\* compact_state, from square `counter` on.
RECURSIVE get_potential_moves_from(_, _, _, _, _)
get_potential_moves_from(self, compact_state, board, counter, acc) ==
    IF counter > 8
    THEN [self |-> self, board |-> board, next_moves |-> acc.next_moves,
          probabilities |-> acc.probabilities, evaluated |-> acc.evaluated,
          panic |-> acc.panic]
    ELSE IF At(compact_state, counter) = "Empty" /\ ~acc.panic
    THEN CHOOSE moves \in
            { get_potential_moves_from(r.self, compact_state, r.compact_state,
                  counter + 1,
                  [next_moves |-> Append(acc.next_moves, next_move(counter)),
                   probabilities |-> Append(acc.probabilities, r.probability),
                   evaluated |-> Append(acc.evaluated,
                                        [i \in 1..9 |-> r.evaluated[i]]),
                   panic |-> r.panic]) :
              r \in { get_move_probability(self, board,
                          <<counter \div 3, counter % 3>>, self.piece) } } :
            TRUE
    ELSE get_potential_moves_from(self, compact_state, board, counter + 1, acc)

get_potential_moves(self, compact_state) ==
    get_potential_moves_from(self, compact_state, compact_state, 0,
        [next_moves |-> << >>, probabilities |-> << >>, evaluated |-> << >>,
         panic |-> FALSE])

\* SliceRandom::choose on a non-empty slice, for the generator's draw r in
\* 0 .. RngWidth - 1: the index is r scaled to the length of the slice.
choose(slice, r) == slice[((r * Len(slice)) \div RngWidth) + 1]

\* Rng::sample(Standard): a value in [0, 1), as <<num, den>>
sample(r) == <<r, RngWidth>>

\* the scan without best_moves.clear() at a new best probability
RECURSIVE best_moves_from_no_clear(_, _, _, _)
best_moves_from_no_clear(potential_moves, idx, max_probability, best_moves) ==
    IF idx > Len(potential_moves.next_moves)
    THEN [max_probability |-> max_probability, best_moves |-> best_moves]
    ELSE IF potential_moves.probabilities[idx] > max_probability
    THEN best_moves_from_no_clear(potential_moves, idx + 1,
             potential_moves.probabilities[idx],
             Append(best_moves, potential_moves.next_moves[idx]))
    ELSE IF potential_moves.probabilities[idx] = max_probability
    THEN best_moves_from_no_clear(potential_moves, idx + 1, max_probability,
             Append(best_moves, potential_moves.next_moves[idx]))
    ELSE best_moves_from_no_clear(potential_moves, idx + 1, max_probability,
             best_moves)

\* The scan of make_optimal_move over the potential moves, from index idx
\* (1-based here): <<max_probability, best_moves>>.
RECURSIVE best_moves_from(_, _, _, _)
best_moves_from(potential_moves, idx, max_probability, best_moves) ==
    IF idx > Len(potential_moves.next_moves)
    THEN [max_probability |-> max_probability, best_moves |-> best_moves]
    ELSE IF potential_moves.probabilities[idx] > max_probability
    THEN best_moves_from(potential_moves, idx + 1,
             potential_moves.probabilities[idx],
             <<potential_moves.next_moves[idx]>>)
    ELSE IF potential_moves.probabilities[idx] = max_probability
    THEN best_moves_from(potential_moves, idx + 1, max_probability,
             Append(best_moves, potential_moves.next_moves[idx]))
    ELSE best_moves_from(potential_moves, idx + 1, max_probability, best_moves)

\* the update with old_prob left out of the difference
td_update_no_subtract(prob, lrate, max_probability, old_prob) ==
    prob + (lrate[1] * max_probability) \div lrate[2]

\* the update with the difference taken the other way round
td_update_wrong_sign(prob, lrate, max_probability, old_prob) ==
    prob + (lrate[1] * (old_prob - max_probability)) \div lrate[2]

\* *prob += lrate * (max_probability - old_prob), lrate = <<num, den>>
td_update(prob, lrate, max_probability, old_prob) ==
    prob + (lrate[1] * (max_probability - old_prob)) \div lrate[2]

\* the optimal move with the update made on the state the scan left in
\* the array: the last candidate
make_optimal_move_on_scratch(potential_moves, compact_state, r) ==
    LET best == best_moves_from(potential_moves, 1, Zero, << >>)
        self1 == potential_moves.self
        updated == IF Len(potential_moves.evaluated) = 0 THEN compact_state
                   ELSE potential_moves.evaluated[Len(potential_moves.evaluated)]
        state_space1 ==
            IF Key(updated) \notin DOMAIN self1.state_space
            THEN Insert(self1.state_space, Key(updated),
                        find_new_state_prob(self1.piece, updated))
            ELSE self1.state_space
        old_prob == state_space1[Key(updated)]
        lrate == learning_rate_function(self1.initial_learning_rate,
                                        self1.iteration)
        state_space2 ==
            [state_space1 EXCEPT ![Key(updated)] =
                td_update(@, lrate, best.max_probability, old_prob)]
        self2 == [self1 EXCEPT !.state_space = state_space2]
    IN  IF potential_moves.panic
        THEN [panic |-> TRUE, self |-> self1, move |-> <<0, 0>>,
              potential_moves |-> potential_moves,
              max_probability |-> best.max_probability]
        ELSE IF Len(best.best_moves) = 1
        THEN [panic |-> FALSE, self |-> self2, move |-> best.best_moves[1],
              potential_moves |-> potential_moves,
              max_probability |-> best.max_probability]
        ELSE IF Len(best.best_moves) > 1
        THEN [panic |-> FALSE, self |-> self2,
              move |-> choose(best.best_moves, r),
              potential_moves |-> potential_moves,
              max_probability |-> best.max_probability]
        ELSE [panic |-> TRUE, self |-> self2, move |-> <<0, 0>>,
              potential_moves |-> potential_moves,
              max_probability |-> best.max_probability]

\* Choose the optimal move (or choose randomly from equivalent moves).
\* potential_moves is the result of the call of get_potential_moves that
\* opens the function; r is the generator's draw for the tie break.
make_optimal_move(potential_moves, compact_state, r) ==
    LET best == best_moves_from(potential_moves, 1, Zero, << >>)
        self1 == potential_moves.self
        state_space1 ==
            IF Key(compact_state) \notin DOMAIN self1.state_space
            THEN Insert(self1.state_space, Key(compact_state),
                        find_new_state_prob(self1.piece, compact_state))
            ELSE self1.state_space
        old_prob == state_space1[Key(compact_state)]
        lrate == learning_rate_function(self1.initial_learning_rate,
                                        self1.iteration)
        state_space2 ==
            [state_space1 EXCEPT ![Key(compact_state)] =
                td_update(@, lrate, best.max_probability, old_prob)]
        self2 == [self1 EXCEPT !.state_space = state_space2]
    IN  IF potential_moves.panic
        THEN [panic |-> TRUE, self |-> self1, move |-> <<0, 0>>,
              potential_moves |-> potential_moves,
              max_probability |-> best.max_probability]
        ELSE IF Len(best.best_moves) = 1
        THEN [panic |-> FALSE, self |-> self2, move |-> best.best_moves[1],
              potential_moves |-> potential_moves,
              max_probability |-> best.max_probability]
        ELSE IF Len(best.best_moves) > 1
        THEN [panic |-> FALSE, self |-> self2,
              move |-> choose(best.best_moves, r),
              potential_moves |-> potential_moves,
              max_probability |-> best.max_probability]
        ELSE [panic |-> TRUE, self |-> self2, move |-> <<0, 0>>,
              potential_moves |-> potential_moves,
              max_probability |-> best.max_probability]

\* The two scans of make_random_move: the max value, then the moves below it.
RECURSIVE max_probability_from(_, _, _)
max_probability_from(probabilities, idx, max_probability) ==
    IF idx > Len(probabilities) THEN max_probability
    ELSE IF probabilities[idx] > max_probability
    THEN max_probability_from(probabilities, idx + 1, probabilities[idx])
    ELSE max_probability_from(probabilities, idx + 1, max_probability)

\* the second scan with <= in place of <
RECURSIVE exploration_moves_from_not_strict(_, _, _, _)
exploration_moves_from_not_strict(potential_moves, idx, max_probability, exploration_moves) ==
    IF idx > Len(potential_moves.probabilities) THEN exploration_moves
    ELSE IF potential_moves.probabilities[idx] <= max_probability
    THEN exploration_moves_from_not_strict(potential_moves, idx + 1,
             max_probability,
             Append(exploration_moves, potential_moves.next_moves[idx]))
    ELSE exploration_moves_from_not_strict(potential_moves, idx + 1,
             max_probability, exploration_moves)

RECURSIVE exploration_moves_from(_, _, _, _)
exploration_moves_from(potential_moves, idx, max_probability, exploration_moves) ==
    IF idx > Len(potential_moves.probabilities) THEN exploration_moves
    ELSE IF potential_moves.probabilities[idx] < max_probability
    THEN exploration_moves_from(potential_moves, idx + 1, max_probability,
             Append(exploration_moves, potential_moves.next_moves[idx]))
    ELSE exploration_moves_from(potential_moves, idx + 1, max_probability,
             exploration_moves)

\* the random move with [0, 0] in place of the unwrap of None
make_random_move_unwrap_or(potential_moves, r) ==
    LET max_probability ==
            max_probability_from(potential_moves.probabilities, 1, Zero)
        exploration_moves ==
            exploration_moves_from(potential_moves, 1, max_probability, << >>)
    IN  IF potential_moves.panic
        THEN [panic |-> TRUE, self |-> potential_moves.self, move |-> <<0, 0>>,
              potential_moves |-> potential_moves,
              max_probability |-> max_probability]
        ELSE IF Len(exploration_moves) = 0
        THEN IF Len(potential_moves.next_moves) = 0
             THEN [panic |-> FALSE, self |-> potential_moves.self,
                   move |-> <<0, 0>>, potential_moves |-> potential_moves,
                   max_probability |-> max_probability]
             ELSE [panic |-> FALSE, self |-> potential_moves.self,
                   move |-> choose(potential_moves.next_moves, r),
                   potential_moves |-> potential_moves,
                   max_probability |-> max_probability]
        ELSE [panic |-> FALSE, self |-> potential_moves.self,
              move |-> choose(exploration_moves, r),
              potential_moves |-> potential_moves,
              max_probability |-> max_probability]

\* If exploring, choose a random (non-optimal) move.  potential_moves is the
\* result of the call of get_potential_moves that opens the function.
\* choose on an empty slice is None, and its unwrap panics.
make_random_move(potential_moves, r) ==
    LET max_probability ==
            max_probability_from(potential_moves.probabilities, 1, Zero)
        exploration_moves ==
            exploration_moves_from(potential_moves, 1, max_probability, << >>)
    IN  IF potential_moves.panic
        THEN [panic |-> TRUE, self |-> potential_moves.self, move |-> <<0, 0>>,
              potential_moves |-> potential_moves,
              max_probability |-> max_probability]
        ELSE IF Len(exploration_moves) = 0
        THEN IF Len(potential_moves.next_moves) = 0
             THEN [panic |-> TRUE, self |-> potential_moves.self,
                   move |-> <<0, 0>>, potential_moves |-> potential_moves,
                   max_probability |-> max_probability]
             ELSE [panic |-> FALSE, self |-> potential_moves.self,
                   move |-> choose(potential_moves.next_moves, r),
                   potential_moves |-> potential_moves,
                   max_probability |-> max_probability]
        ELSE [panic |-> FALSE, self |-> potential_moves.self,
              move |-> choose(exploration_moves, r),
              potential_moves |-> potential_moves,
              max_probability |-> max_probability]

\* rand_val < exp_rate
explores(self, rand_val) ==
    LET exp_rate == exploration_rate_function(self.initial_exploration_rate,
                                              self.iteration)
    IN  rand_val[1] * exp_rate[2] < exp_rate[1] * rand_val[2]

\* make_move with the update of the current state made on both branches
make_move_of_always_updates(potential_moves, self, board_state, r1, r2) ==
    IF explores(self, sample(r1))
    THEN [make_random_move(potential_moves, r2) EXCEPT
             !.self = make_optimal_move(potential_moves, board_state, r2).self]
    ELSE make_optimal_move(potential_moves, board_state, r2)

\* Given a board state, determine which move to make.  r1 and r2 are the
\* generator's two draws: the exploration sample and the choice.  Both
\* branches start with the same call of get_potential_moves, whose result is
\* potential_moves.
make_move_of(potential_moves, self, board_state, r1, r2) ==
    IF explores(self, sample(r1))
    THEN make_random_move(potential_moves, r2)
    ELSE make_optimal_move(potential_moves, board_state, r2)

make_move(self, board_state, r1, r2) ==
    CHOOSE out \in
        { make_move_of(potential_moves, self, board_state, r1, r2) :
          potential_moves \in { get_potential_moves(self, board_state) } } :
        TRUE

\* Player::show_loosing_state: the value of the state, inserted at its
\* default when absent, is moved toward the value of a lost game, 0.
show_loosing_state(self, compact_state) ==
    LET state_space1 ==
            IF Key(compact_state) \notin DOMAIN self.state_space
            THEN Insert(self.state_space, Key(compact_state),
                        find_new_state_prob(self.piece, compact_state))
            ELSE self.state_space
        old_prob == state_space1[Key(compact_state)]
        lrate == learning_rate_function(self.initial_learning_rate,
                                        self.iteration)
    IN  [self EXCEPT !.state_space =
            [state_space1 EXCEPT ![Key(compact_state)] =
                td_update(@, lrate, Zero, old_prob)]]

----------------------------------------------------------------------------
(* agents/players.rs: SaveState and its borsh encoding.  A file is the     *)
(* sequence of its bytes.  The layout is the fields of SaveState in order: *)
(* piece (u8 discriminant), state_space (u32 length, then the entries      *)
(* sorted by key, each the 9 discriminants of the key and the f64 value),  *)
(* initial_learning_rate (f64), initial_exploration_rate (f64),            *)
(* iteration (u32).  Integers and the bits of an f64 are little-endian.    *)

RECURSIVE powi2(_)
powi2(n) == IF n = 0 THEN 1 ELSE 2 * powi2(n - 1)

\* 2^n for n in 0..30
Pow2Table == [n \in 0..30 |-> powi2(n)]

pow2(n) == Pow2Table[n]

\* floor(log2(n)) for n >= 1
log2(n) == CHOOSE m \in 0..29 : Pow2Table[m] <= n /\ n < Pow2Table[m + 1]

\* The exponent of One as a power of 2
OneExponent == log2(One)

borsh_u32(n) ==
    <<n % 256, (n \div 256) % 256, (n \div 65536) % 256,
      (n \div 16777216) % 256>>

borsh_u32_decode(bytes) ==
    bytes[1] + 256 * bytes[2] + 65536 * bytes[3] + 16777216 * bytes[4]

\* The 8 bytes of the IEEE-754 double abs / One with sign bit `sign`, for
\* abs >= 1 and m = floor(log2(abs)): the 11-bit biased exponent and the
\* leading 20 bits of the 52-bit fraction (the other 32 are zero for the
\* values of the model).
f64_bytes(sign, abs, m, exponent) ==
    CHOOSE bytes \in
        { <<0, 0, 0, 0,
            fraction % 256,
            (fraction \div 256) % 256,
            (exponent % 16) * 16 + (fraction \div 65536),
            sign * 128 + (exponent \div 16)>> :
          fraction \in { (abs - pow2(m)) * pow2(20 - m) } } : TRUE

\* f64::serialize: the 8 bytes of the double v / One
borsh_f64(v) ==
    IF v = 0 THEN <<0, 0, 0, 0, 0, 0, 0, 0>>
    ELSE CHOOSE bytes \in
        { f64_bytes(IF v < 0 THEN 1 ELSE 0, IF v < 0 THEN 0 - v ELSE v, m,
                    1023 + m - OneExponent) :
          m \in { log2(IF v < 0 THEN 0 - v ELSE v) } } : TRUE

borsh_f64_decode(bytes) ==
    LET sign == bytes[8] \div 128
        exponent == (bytes[8] % 128) * 16 + (bytes[7] \div 16)
        fraction == (bytes[7] % 16) * 65536 + bytes[6] * 256 + bytes[5]
        m == exponent - 1023 + OneExponent
        abs == IF m >= 0 /\ m <= 20
               THEN pow2(m) + (fraction \div pow2(20 - m))
               ELSE 0
    IN  IF exponent = 0 /\ fraction = 0 THEN 0
        ELSE IF sign = 1 THEN 0 - abs ELSE abs

\* A rate <<num, den>> as the f64 num / den, in units of 1 / One
rate_to_f64(rate) == (rate[1] * One) \div rate[2]

RECURSIVE gcd(_, _)
gcd(a, b) == IF b = 0 THEN a ELSE gcd(b, a % b)

\* The f64 v / One as a rate in lowest terms
f64_to_rate(v) == <<v \div gcd(v, One), One \div gcd(v, One)>>

\* The 9 discriminants of the array whose key is `key`, cell 0 first
borsh_key(key) ==
    <<(key \div 6561) % 3, (key \div 2187) % 3, (key \div 729) % 3,
      (key \div 243) % 3, (key \div 81) % 3, (key \div 27) % 3,
      (key \div 9) % 3, (key \div 3) % 3, key % 3>>

borsh_key_decode(bytes) ==
    bytes[1] * 6561 + bytes[2] * 2187 + bytes[3] * 729 + bytes[4] * 243
    + bytes[5] * 81 + bytes[6] * 27 + bytes[7] * 9 + bytes[8] * 3 + bytes[9]

\* The keys of the map in their order (sort_by of the keys): the key with
\* i - 1 keys below it is the i-th
SortedKeys(keys) ==
    CHOOSE sorted \in
        { [i \in 1..Cardinality(keys) |->
              CHOOSE k \in keys : rank[k] = i - 1] :
          rank \in { [k \in keys |-> Cardinality({j \in keys : j < k})] } } :
        TRUE

\* The entries of the map in the order of their keys, 17 bytes each
borsh_entries(state_space, sorted) ==
    CHOOSE bytes \in
        { [p \in 1..(17 * Len(sorted)) |->
              entry[((p - 1) \div 17) + 1][((p - 1) % 17) + 1]] :
          entry \in { [i \in 1..Len(sorted) |->
                         borsh_key(sorted[i])
                         \o borsh_f64(state_space[sorted[i]])] } } : TRUE

\* the encoding with the two rates in the other order
borsh_serialize_rates_swapped(save_state) ==
    <<Discriminant(save_state.piece)>>
    \o borsh_u32(Cardinality(DOMAIN save_state.state_space))
    \o borsh_entries(save_state.state_space,
                     SortedKeys(DOMAIN save_state.state_space))
    \o borsh_f64(rate_to_f64(save_state.initial_exploration_rate))
    \o borsh_f64(rate_to_f64(save_state.initial_learning_rate))
    \o borsh_u32(save_state.iteration)

\* borsh::to_writer of a SaveState
borsh_serialize(save_state) ==
    <<Discriminant(save_state.piece)>>
    \o borsh_u32(Cardinality(DOMAIN save_state.state_space))
    \o ( CHOOSE entries \in
             { borsh_entries(save_state.state_space, sorted) :
               sorted \in { SortedKeys(DOMAIN save_state.state_space) } } :
             TRUE )
    \o borsh_f64(rate_to_f64(save_state.initial_learning_rate))
    \o borsh_f64(rate_to_f64(save_state.initial_exploration_rate))
    \o borsh_u32(save_state.iteration)

\* The entries read from `bytes`, `count` of them from offset `at`; a key
\* read twice keeps its last value (collect into a HashMap)
RECURSIVE borsh_entries_decode(_, _, _, _)
borsh_entries_decode(bytes, at, count, state_space) ==
    IF count = 0 THEN state_space
    ELSE LET key == borsh_key_decode(SubSeq(bytes, at + 1, at + 9))
             value == borsh_f64_decode(SubSeq(bytes, at + 10, at + 17))
         IN  borsh_entries_decode(bytes, at + 17, count - 1,
                 [k \in DOMAIN state_space \cup {key} |->
                     IF k = key THEN value ELSE state_space[k]])

\* borsh::de::from_reader of a SaveState: an error when the bytes run out, a
\* discriminant is not one of a Piece, or bytes are left over
borsh_deserialize(bytes) ==
    IF Len(bytes) < 5 THEN [tag |-> "Err"]
    ELSE LET count == borsh_u32_decode(SubSeq(bytes, 2, 5))
             rest == 5 + 17 * count
         IN  IF \/ bytes[1] > 2
                \/ Len(bytes) # rest + 20
                \/ \E i \in 0..(count - 1) : \E j \in 1..9 :
                       bytes[5 + 17 * i + j] > 2
             THEN [tag |-> "Err"]
             ELSE [tag |-> "Ok",
                   save_state |->
                     [piece |-> IF bytes[1] = 0 THEN "Empty"
                                ELSE IF bytes[1] = 1 THEN "X" ELSE "O",
                      state_space |->
                          borsh_entries_decode(bytes, 5, count,
                                               [k \in {} |-> Zero]),
                      initial_learning_rate |->
                          f64_to_rate(borsh_f64_decode(
                              SubSeq(bytes, rest + 1, rest + 8))),
                      initial_exploration_rate |->
                          f64_to_rate(borsh_f64_decode(
                              SubSeq(bytes, rest + 9, rest + 16))),
                      iteration |->
                          borsh_u32_decode(SubSeq(bytes, rest + 17, rest + 20))]]

\* What has happened to the bytes of a file since they were encoded: nothing,
\* only the first `at` of them are there ("truncated"), `byte` follows them
\* ("trailing"), or the byte number `at` (from 1) is `byte` ("byte").
NoDamage == [kind |-> "none", at |-> 0, byte |-> 0]

Damaged(bytes, damage) ==
    IF damage.kind = "truncated"
    THEN SubSeq(bytes, 1, IF damage.at < Len(bytes) THEN damage.at
                          ELSE Len(bytes) - 1)
    ELSE IF damage.kind = "trailing" THEN Append(bytes, damage.byte)
    ELSE IF damage.kind = "byte" /\ damage.at \in 1..Len(bytes)
    THEN [bytes EXCEPT ![damage.at] = damage.byte]
    ELSE bytes

\* A file of the output directory.  A file that exists holds the encoding of
\* `written`, whole when the last write went through (`complete`) and
\* damaged otherwise.
NoFile ==
    [exists |-> FALSE, complete |-> FALSE, written |-> [piece |-> "Empty"],
     damage |-> NoDamage]

FileBytes(file) ==
    IF file.complete THEN borsh_serialize(file.written)
    ELSE Damaged(borsh_serialize(file.written), file.damage)

\* What the file system does during one save_player_state: "ok",
\* "create_fails" (File::create fails) or "write_fails" (the first write on
\* the file fails after `kept` bytes)
IoOutcomes ==
    {[kind |-> "ok", kept |-> 0], [kind |-> "create_fails", kept |-> 0]}
    \cup {[kind |-> "write_fails", kept |-> n] : n \in 0..MaxKeptBytes}

IoOk == [kind |-> "ok", kept |-> 0]

\* the number of bytes of the encoding of a SaveState
EncodedLen(save_state) == 25 + 17 * Cardinality(DOMAIN save_state.state_space)

\* Save the player data to a file.  `file` is the file before the call;
\* File::create truncates it.  The BufWriter writes on the file when the
\* next piece does not fit in its buffer, which to_writer reports, and when
\* it is dropped at the end of the function, which nobody reports.
save_player_state(self, file, io) ==
    IF io.kind = "create_fails"
    THEN [result |-> "Err(InvalidFile)", file |-> file]
    ELSE IF io.kind = "write_fails"
    THEN [result |-> IF EncodedLen(self) > BufWriterCapacity
                     THEN "Err(UnableToSave)" ELSE "Ok",
          file |-> [exists |-> TRUE, complete |-> FALSE, written |-> self,
                    damage |-> [kind |-> "truncated", at |-> io.kept,
                                byte |-> 0]]]
    ELSE [result |-> "Ok",
          file |-> [exists |-> TRUE, complete |-> TRUE, written |-> self,
                    damage |-> NoDamage]]

\* new_from_file with a player made by Player::new in place of a state
\* that does not decode
new_from_file_default_on_error(file) ==
    IF ~file.exists THEN [tag |-> "Err", error |-> "InvalidFile"]
    ELSE CHOOSE loaded \in
        { IF decoded.tag = "Err"
          THEN [tag |-> "Ok", player |-> new("X", <<3, 4>>, <<1, 5>>)]
          ELSE [tag |-> "Ok", player |-> decoded.save_state] :
          decoded \in { borsh_deserialize(FileBytes(file)) } } : TRUE

\* Read in a player save state from a file
new_from_file(file) ==
    IF ~file.exists THEN [tag |-> "Err", error |-> "InvalidFile"]
    ELSE CHOOSE loaded \in
        { IF decoded.tag = "Err"
          THEN [tag |-> "Err", error |-> "UnableToRead"]
          ELSE [tag |-> "Ok", player |-> decoded.save_state] :
          decoded \in { borsh_deserialize(FileBytes(file)) } } : TRUE

----------------------------------------------------------------------------
(* game/board.rs: Board.  squares[row][col] of the source is               *)
(* squares[row + 1][col + 1] here.                                         *)

Board_new == [row \in 1..3 |-> [col \in 1..3 |-> "Empty"]]

\* Board::make_move: the square must be empty, then the str must name a
\* piece
Board_make_move(squares, row, col, val) ==
    IF squares[row + 1][col + 1] # "Empty"
    THEN [result |-> "Err(NotEmpty)", squares |-> squares]
    ELSE IF val \in {"X", "x"}
    THEN [result |-> "Ok",
          squares |-> [squares EXCEPT ![row + 1][col + 1] = "X"]]
    ELSE IF val \in {"O", "o"}
    THEN [result |-> "Ok",
          squares |-> [squares EXCEPT ![row + 1][col + 1] = "O"]]
    ELSE [result |-> "Err(InvalidPiece)", squares |-> squares]

\* Board::player_move.  move_specification is the sequence of the chars of
\* the str; indexing the Vec of chars past its end panics.
player_move(squares, move_specification, piece_specification) ==
    IF Len(move_specification) < 1
    THEN [panic |-> TRUE, result |-> "none", squares |-> squares]
    ELSE IF move_specification[1] \notin {"a", "A", "b", "B", "c", "C"}
    THEN [panic |-> FALSE, result |-> "Err(InvalidMove)", squares |-> squares]
    ELSE IF Len(move_specification) < 2
    THEN [panic |-> TRUE, result |-> "none", squares |-> squares]
    ELSE IF move_specification[2] \notin {"1", "2", "3"}
    THEN [panic |-> FALSE, result |-> "Err(InvalidMove)", squares |-> squares]
    ELSE LET row == IF move_specification[1] \in {"a", "A"} THEN 0
                    ELSE IF move_specification[1] \in {"b", "B"} THEN 1
                    ELSE 2
             col == IF move_specification[2] = "1" THEN 0
                    ELSE IF move_specification[2] = "2" THEN 1
                    ELSE 2
             made == Board_make_move(squares, row, col, piece_specification)
         IN  [panic |-> FALSE, result |-> made.result,
              squares |-> made.squares]

\* Make a move using a Piece object instead of a str
make_auto_player_move(squares, row, col, piece) ==
    [squares EXCEPT ![row + 1][col + 1] = piece]

clear_board(squares) == [row \in 1..3 |-> [col \in 1..3 |-> "Empty"]]

get_compact_state(squares) ==
    [i \in 1..9 |-> squares[((i - 1) \div 3) + 1][((i - 1) % 3) + 1]]

\* the scan that answers after the first row
is_full_first_row(squares) ==
    \A col \in 1..3 : squares[1][col] # "Empty"

is_full(squares) ==
    \A row \in 1..3 : \A col \in 1..3 : squares[row][col] # "Empty"

\* the loop over the columns stopped one column early
Board_check_winner_col_two_columns(squares) ==
    LET line(col) == /\ squares[1][col] = squares[2][col]
                     /\ squares[1][col] = squares[3][col]
                     /\ squares[1][col] # "Empty"
    IN  IF line(1) THEN squares[1][1]
        ELSE IF line(2) THEN squares[1][2]
        ELSE "None"

Board_check_winner_col(squares) ==
    LET line(col) == /\ squares[1][col] = squares[2][col]
                     /\ squares[1][col] = squares[3][col]
                     /\ squares[1][col] # "Empty"
    IN  IF line(1) THEN squares[1][1]
        ELSE IF line(2) THEN squares[1][2]
        ELSE IF line(3) THEN squares[1][3]
        ELSE "None"

Board_check_winner_row(squares) ==
    LET line(row) == /\ squares[row][1] = squares[row][2]
                     /\ squares[row][1] = squares[row][3]
                     /\ squares[row][1] # "Empty"
    IN  IF line(1) THEN squares[1][1]
        ELSE IF line(2) THEN squares[2][1]
        ELSE IF line(3) THEN squares[3][1]
        ELSE "None"

\* the check of the first diagonal alone
Board_check_winner_diag_first_only(squares) ==
    IF /\ squares[1][1] = squares[2][2]
       /\ squares[1][1] = squares[3][3]
       /\ squares[1][1] # "Empty"
    THEN squares[1][1]
    ELSE "None"

Board_check_winner_diag(squares) ==
    IF /\ squares[1][1] = squares[2][2]
       /\ squares[1][1] = squares[3][3]
       /\ squares[1][1] # "Empty"
    THEN squares[1][1]
    ELSE IF /\ squares[3][1] = squares[2][2]
            /\ squares[3][1] = squares[1][3]
            /\ squares[3][1] # "Empty"
    THEN squares[3][1]
    ELSE "None"

Board_check_winner(squares) ==
    IF Board_check_winner_col(squares) # "None"
    THEN Board_check_winner_col(squares)
    ELSE IF Board_check_winner_row(squares) # "None"
    THEN Board_check_winner_row(squares)
    ELSE Board_check_winner_diag(squares)

----------------------------------------------------------------------------
(* agents/trainer.rs: Trainer::train, one action per step of its loop.     *)

NoCall == [op |-> "none"]

\* The record kept of a make_move call by player `who` on board_state.
MoveCall(who, before, board_state, r1, res) ==
    [op |-> "make_move", who |-> who, before |-> before,
     board_state |-> board_state, explored |-> explores(before, sample(r1)),
     panic |-> res.panic, move |-> res.move,
     next_moves |-> res.potential_moves.next_moves,
     probabilities |-> res.potential_moves.probabilities,
     evaluated |-> res.potential_moves.evaluated,
     board |-> res.potential_moves.board,
     max_probability |-> res.max_probability]

\* The record kept of a show_loosing_state call by player `who`.
ShownCall(who, before, compact_state, winner_board) ==
    [op |-> "show_loosing_state", who |-> who, before |-> before,
     compact_state |-> compact_state, winner_board |-> winner_board]

player_x_file_path == "player_x_save.ttr"
player_o_file_path == "player_o_save.ttr"

NoFiles == [path \in {player_x_file_path, player_o_file_path} |-> NoFile]

NoResult == [tag |-> "none"]

\* train is called with two players made by Player::new
TrainInit ==
    /\ \E piece1 \in Sides, piece2 \in Sides, rates \in TrainRates :
          /\ player1 = new(piece1, rates[1], rates[2])
          /\ player2 = new(piece2, rates[1], rates[3])
    /\ iterations \in 0..MaxIterations
    /\ it = 0
    /\ training_board = Board_new
    /\ prev_board1 = EmptyBoard
    /\ prev_board2 = EmptyBoard
    /\ files = NoFiles
    /\ result = NoResult
    /\ pc = "train"
    /\ last = NoCall
    /\ shown = NoCall

\* train without the check of the two pieces
TrainStart_unchecked ==
    /\ pc = "train"
    /\ result' = result
    /\ pc' = "for"
    /\ training_board' = Board_new
    /\ UNCHANGED <<player1, player2, iterations, it, prev_board1, prev_board2,
                   files, last, shown>>

\* lines 19-26: the check of the two pieces
TrainStart ==
    /\ pc = "train"
    /\ IF get_player_piece(player1) = get_player_piece(player2)
       THEN /\ result' = [tag |-> "Err", error |-> "InvalidPlayers"]
            /\ pc' = "returned"
       ELSE /\ result' = result
            /\ pc' = "for"
    /\ training_board' = Board_new
    /\ UNCHANGED <<player1, player2, iterations, it, prev_board1, prev_board2,
                   files, last, shown>>

\* lines 27-48: the head of `for it in 0..iterations`
ForIteration ==
    /\ pc = "for"
    /\ it < iterations
    /\ training_board' = clear_board(training_board)
    /\ player1' = update_iteration(player1, it)
    /\ player2' = update_iteration(player2, it)
    /\ prev_board1' = EmptyBoard
    /\ prev_board2' = EmptyBoard
    /\ pc' = "p1"
    /\ UNCHANGED <<iterations, it, files, result, last, shown>>

\* the first player's move with prev_board1 taken before the move
Player1Move_prev_before_move ==
    /\ pc = "p1"
    /\ \E potential_moves \in
            { get_potential_moves(player1, get_compact_state(training_board)) } :
      \E r1 \in 0..(RngWidth - 1), r2 \in 0..(RngWidth - 1) :
      \E res \in { make_move_of(potential_moves, player1,
                        get_compact_state(training_board), r1, r2) } :
        LET board_state == get_compact_state(training_board)
            p1_move == res.move
            moved == make_auto_player_move(training_board, p1_move[1],
                         p1_move[2], get_player_piece(res.self))
        IN  /\ last' = MoveCall(1, player1, board_state, r1, res)
            /\ player1' = res.self
            /\ IF res.panic
               THEN /\ pc' = "panicked"
                    /\ UNCHANGED <<player2, it, training_board, prev_board1,
                                   shown>>
               ELSE /\ training_board' = moved
                    /\ IF Board_check_winner(moved) # "None"
                       THEN /\ player2' = show_loosing_state(player2, prev_board2)
                            /\ shown' = ShownCall(2, player2, prev_board2,
                                            get_compact_state(moved))
                            /\ it' = it + 1
                            /\ pc' = "for"
                            /\ UNCHANGED prev_board1
                       ELSE IF is_full(moved)
                       THEN /\ it' = it + 1
                            /\ pc' = "for"
                            /\ UNCHANGED <<player2, prev_board1, shown>>
                       ELSE /\ prev_board1' = board_state
                            /\ pc' = "p2"
                            /\ UNCHANGED <<player2, it, shown>>
    /\ UNCHANGED <<iterations, prev_board2, files, result>>

\* lines 51-63: the first player's move and the checks that follow it
Player1Move ==
    /\ pc = "p1"
    /\ \E potential_moves \in
            { get_potential_moves(player1, get_compact_state(training_board)) } :
      \E r1 \in 0..(RngWidth - 1), r2 \in 0..(RngWidth - 1) :
      \E res \in { make_move_of(potential_moves, player1,
                        get_compact_state(training_board), r1, r2) } :
        LET board_state == get_compact_state(training_board)
            p1_move == res.move
            moved == make_auto_player_move(training_board, p1_move[1],
                         p1_move[2], get_player_piece(res.self))
        IN  /\ last' = MoveCall(1, player1, board_state, r1, res)
            /\ player1' = res.self
            /\ IF res.panic
               THEN /\ pc' = "panicked"
                    /\ UNCHANGED <<player2, it, training_board, prev_board1,
                                   shown>>
               ELSE /\ training_board' = moved
                    /\ IF Board_check_winner(moved) # "None"
                       THEN /\ player2' = show_loosing_state(player2, prev_board2)
                            /\ shown' = ShownCall(2, player2, prev_board2,
                                            get_compact_state(moved))
                            /\ it' = it + 1
                            /\ pc' = "for"
                            /\ UNCHANGED prev_board1
                       ELSE IF is_full(moved)
                       THEN /\ it' = it + 1
                            /\ pc' = "for"
                            /\ UNCHANGED <<player2, prev_board1, shown>>
                       ELSE /\ prev_board1' = get_compact_state(moved)
                            /\ pc' = "p2"
                            /\ UNCHANGED <<player2, it, shown>>
    /\ UNCHANGED <<iterations, prev_board2, files, result>>

\* the second player's move without the call of show_loosing_state
Player2Move_no_show ==
    /\ pc = "p2"
    /\ \E potential_moves \in
            { get_potential_moves(player2, get_compact_state(training_board)) } :
      \E r1 \in 0..(RngWidth - 1), r2 \in 0..(RngWidth - 1) :
      \E res \in { make_move_of(potential_moves, player2,
                        get_compact_state(training_board), r1, r2) } :
        LET board_state == get_compact_state(training_board)
            p2_move == res.move
            moved == make_auto_player_move(training_board, p2_move[1],
                         p2_move[2], get_player_piece(res.self))
        IN  /\ last' = MoveCall(2, player2, board_state, r1, res)
            /\ player2' = res.self
            /\ IF res.panic
               THEN /\ pc' = "panicked"
                    /\ UNCHANGED <<player1, it, training_board, prev_board2,
                                   shown>>
               ELSE /\ training_board' = moved
                    /\ IF Board_check_winner(moved) # "None"
                       THEN /\ it' = it + 1
                            /\ pc' = "for"
                            /\ UNCHANGED <<player1, prev_board2, shown>>
                       ELSE IF is_full(moved)
                       THEN /\ it' = it + 1
                            /\ pc' = "for"
                            /\ UNCHANGED <<player1, prev_board2, shown>>
                       ELSE /\ prev_board2' = get_compact_state(moved)
                            /\ pc' = "p1"
                            /\ UNCHANGED <<player1, it, shown>>
    /\ UNCHANGED <<iterations, prev_board1, files, result>>

\* the second player's move without the assignment of prev_board2
Player2Move_prev_not_recorded ==
    /\ pc = "p2"
    /\ \E potential_moves \in
            { get_potential_moves(player2, get_compact_state(training_board)) } :
      \E r1 \in 0..(RngWidth - 1), r2 \in 0..(RngWidth - 1) :
      \E res \in { make_move_of(potential_moves, player2,
                        get_compact_state(training_board), r1, r2) } :
        LET board_state == get_compact_state(training_board)
            p2_move == res.move
            moved == make_auto_player_move(training_board, p2_move[1],
                         p2_move[2], get_player_piece(res.self))
        IN  /\ last' = MoveCall(2, player2, board_state, r1, res)
            /\ player2' = res.self
            /\ IF res.panic
               THEN /\ pc' = "panicked"
                    /\ UNCHANGED <<player1, it, training_board, prev_board2,
                                   shown>>
               ELSE /\ training_board' = moved
                    /\ IF Board_check_winner(moved) # "None"
                       THEN /\ player1' = show_loosing_state(player1, prev_board1)
                            /\ shown' = ShownCall(1, player1, prev_board1,
                                            get_compact_state(moved))
                            /\ it' = it + 1
                            /\ pc' = "for"
                            /\ UNCHANGED prev_board2
                       ELSE IF is_full(moved)
                       THEN /\ it' = it + 1
                            /\ pc' = "for"
                            /\ UNCHANGED <<player1, prev_board2, shown>>
                       ELSE /\ prev_board2' = prev_board2
                            /\ pc' = "p1"
                            /\ UNCHANGED <<player1, it, shown>>
    /\ UNCHANGED <<iterations, prev_board1, files, result>>

\* lines 65-76: the second player's move and the checks that follow it
Player2Move ==
    /\ pc = "p2"
    /\ \E potential_moves \in
            { get_potential_moves(player2, get_compact_state(training_board)) } :
      \E r1 \in 0..(RngWidth - 1), r2 \in 0..(RngWidth - 1) :
      \E res \in { make_move_of(potential_moves, player2,
                        get_compact_state(training_board), r1, r2) } :
        LET board_state == get_compact_state(training_board)
            p2_move == res.move
            moved == make_auto_player_move(training_board, p2_move[1],
                         p2_move[2], get_player_piece(res.self))
        IN  /\ last' = MoveCall(2, player2, board_state, r1, res)
            /\ player2' = res.self
            /\ IF res.panic
               THEN /\ pc' = "panicked"
                    /\ UNCHANGED <<player1, it, training_board, prev_board2,
                                   shown>>
               ELSE /\ training_board' = moved
                    /\ IF Board_check_winner(moved) # "None"
                       THEN /\ player1' = show_loosing_state(player1, prev_board1)
                            /\ shown' = ShownCall(1, player1, prev_board1,
                                            get_compact_state(moved))
                            /\ it' = it + 1
                            /\ pc' = "for"
                            /\ UNCHANGED prev_board2
                       ELSE IF is_full(moved)
                       THEN /\ it' = it + 1
                            /\ pc' = "for"
                            /\ UNCHANGED <<player1, prev_board2, shown>>
                       ELSE /\ prev_board2' = get_compact_state(moved)
                            /\ pc' = "p1"
                            /\ UNCHANGED <<player1, it, shown>>
    /\ UNCHANGED <<iterations, prev_board1, files, result>>

\* the save with player1 always at the X path and player2 at the O path
SavePlayers_by_argument ==
    /\ pc = "for"
    /\ ~(it < iterations)
    /\ \E io1 \in IoOutcomes, io2 \in IoOutcomes :
        /\ iterations > MaxFaultIterations => (io1 = IoOk /\ io2 = IoOk)
        /\ \E saved_x \in { save_player_state(player1,
                                  files[player_x_file_path], io1) } :
             IF saved_x.result # "Ok"
             THEN /\ files' = [files EXCEPT
                                  ![player_x_file_path] = saved_x.file]
                  /\ result' = [tag |-> "Err", error |-> "FailedToSave"]
             ELSE \E saved_o \in { save_player_state(player2,
                                       files[player_o_file_path], io2) } :
                  /\ files' = [files EXCEPT
                                  ![player_x_file_path] = saved_x.file,
                                  ![player_o_file_path] = saved_o.file]
                  /\ result' =
                       IF saved_o.result # "Ok"
                       THEN [tag |-> "Err", error |-> "FailedToSave"]
                       ELSE [tag |-> "Ok",
                             paths |-> <<player_x_file_path,
                                         player_o_file_path>>]
    /\ pc' = "returned"
    /\ UNCHANGED <<player1, player2, iterations, it, training_board,
                   prev_board1, prev_board2, last, shown>>

\* lines 80-103: the loop is over; the two players are saved, the one that
\* plays X first
SavePlayers ==
    /\ pc = "for"
    /\ ~(it < iterations)
    /\ \E io1 \in IoOutcomes, io2 \in IoOutcomes :
        /\ iterations > MaxFaultIterations => (io1 = IoOk /\ io2 = IoOk)
        /\ LET player_x == IF get_player_piece(player1) = "X"
                           THEN player1 ELSE player2
               player_o == IF get_player_piece(player1) = "X"
                           THEN player2 ELSE player1
           IN  \E saved_x \in { save_player_state(player_x,
                                     files[player_x_file_path], io1) } :
                 IF saved_x.result # "Ok"
                 THEN /\ files' = [files EXCEPT
                                      ![player_x_file_path] = saved_x.file]
                      /\ result' = [tag |-> "Err", error |-> "FailedToSave"]
                 ELSE \E saved_o \in { save_player_state(player_o,
                                           files[player_o_file_path], io2) } :
                      /\ files' = [files EXCEPT
                                      ![player_x_file_path] = saved_x.file,
                                      ![player_o_file_path] = saved_o.file]
                      /\ result' =
                           IF saved_o.result # "Ok"
                           THEN [tag |-> "Err", error |-> "FailedToSave"]
                           ELSE [tag |-> "Ok",
                                 paths |-> <<player_x_file_path,
                                             player_o_file_path>>]
    /\ pc' = "returned"
    /\ UNCHANGED <<player1, player2, iterations, it, training_board,
                   prev_board1, prev_board2, last, shown>>

Init == TrainInit

Next ==
    \/ TrainStart
    \/ ForIteration
    \/ Player1Move
    \/ Player2Move
    \/ SavePlayers

Spec == Init /\ [][Next]_vars

\* train is one sequential call: whenever it has a step to take, it takes
\* it; the runs of at most MaxFairIterations episodes
FairInit == TrainInit /\ iterations <= MaxFairIterations

SpecFair == FairInit /\ [][Next]_vars /\ WF_vars(Next)

----------------------------------------------------------------------------
(* One Player scoring one move: get_move_probability on any board and any  *)
(* empty square of it, twice in a row, by a player made by Player::new.    *)

EvalCall(before, compact_state, potential_move, res) ==
    [op |-> "get_move_probability", before |-> before,
     compact_state |-> compact_state, potential_move |-> potential_move,
     panic |-> res.panic, probability |-> res.probability,
     evaluated |-> [i \in 1..9 |-> res.evaluated[i]],
     after |-> res.compact_state]

EvalInit ==
    /\ \E piece \in Sides : player1 = new(piece, <<3, 4>>, <<0, 1>>)
    /\ player2 = new("Empty", <<3, 4>>, <<0, 1>>)
    /\ iterations = 0
    /\ it = 0
    /\ training_board = Board_new
    /\ prev_board1 \in CompactStates
    /\ prev_board2 = EmptyBoard
    /\ files = NoFiles
    /\ result = NoResult
    /\ pc = "score"
    /\ \E row \in 0..2, col \in 0..2 :
          /\ At(prev_board1, 3 * row + col) = "Empty"
          /\ last = [op |-> "none", potential_move |-> <<row, col>>]
    /\ shown = NoCall

\* the first call: the state is not in the table
ScoreMove ==
    /\ pc = "score"
    /\ \E res \in { get_move_probability(player1, prev_board1,
                         last.potential_move, get_player_piece(player1)) } :
          /\ player1' = res.self
          /\ last' = EvalCall(player1, prev_board1, last.potential_move, res)
    /\ pc' = "scored"
    /\ UNCHANGED <<player2, iterations, it, training_board, prev_board1,
                   prev_board2, files, result, shown>>

\* the same call again: the state is in the table
ScoreMoveAgain ==
    /\ pc = "scored"
    /\ \E res \in { get_move_probability(player1, prev_board1,
                         last.potential_move, get_player_piece(player1)) } :
          /\ player1' = res.self
          /\ last' = EvalCall(player1, prev_board1, last.potential_move, res)
    /\ pc' = "scored_again"
    /\ UNCHANGED <<player2, iterations, it, training_board, prev_board1,
                   prev_board2, files, result, shown>>

EvalNext == ScoreMove \/ ScoreMoveAgain

SpecEval == EvalInit /\ [][EvalNext]_vars

----------------------------------------------------------------------------
(* One call of Player::make_move, on any board, by a player made by        *)
(* Player::new that explores on some draws and not on others.              *)

MoveInit ==
    /\ \E piece \in Sides : player1 = new(piece, <<3, 4>>, <<1, 2>>)
    /\ player2 = new("Empty", <<3, 4>>, <<0, 1>>)
    /\ iterations = 0
    /\ it = 0
    /\ training_board = Board_new
    /\ prev_board1 \in CompactStates
    /\ prev_board2 = EmptyBoard
    /\ files = NoFiles
    /\ result = NoResult
    /\ pc = "move"
    /\ last = NoCall
    /\ shown = NoCall

MakeMove ==
    /\ pc = "move"
    /\ \E potential_moves \in { get_potential_moves(player1, prev_board1) } :
      \E r1 \in 0..(RngWidth - 1), r2 \in 0..(RngWidth - 1) :
      \E res \in { make_move_of(potential_moves, player1, prev_board1,
                        r1, r2) } :
        /\ last' = MoveCall(1, player1, prev_board1, r1, res)
        /\ player1' = res.self
        /\ pc' = IF res.panic THEN "panicked" ELSE "moved"
    /\ UNCHANGED <<player2, iterations, it, training_board, prev_board1,
                   prev_board2, files, result, shown>>

MoveNext == MakeMove

SpecMove == MoveInit /\ [][MoveNext]_vars

----------------------------------------------------------------------------
(* The two schedules of annealing.rs, each taken at an iteration, at the   *)
(* next one and at iteration 0, for an initial rate that is not negative.  *)

\* the initial rates: 0, INITIAL_EXPLORATION_RATE, INITIAL_LEARNING_RATE, 1
AnnealRates == {<<0, 1>>, <<1, 5>>, <<3, 4>>, <<1, 1>>}

AnnealInit ==
    /\ player1 = new("X", <<3, 4>>, <<1, 5>>)
    /\ player2 = new("O", <<3, 4>>, <<1, 5>>)
    /\ iterations = 0
    /\ it \in 0..MaxAnnealIteration
    /\ training_board = Board_new
    /\ prev_board1 = EmptyBoard
    /\ prev_board2 = EmptyBoard
    /\ files = NoFiles
    /\ result = NoResult
    /\ pc = "rate"
    /\ \E initial_rate \in AnnealRates :
          last = [op |-> "none", initial_rate |-> initial_rate]
    /\ shown = NoCall

LearningRate ==
    /\ pc = "rate"
    /\ last' = [op |-> "learning_rate_function",
                initial_rate |-> last.initial_rate, iteration |-> it,
                rate |-> learning_rate_function(last.initial_rate, it),
                next |-> learning_rate_function(last.initial_rate, it + 1),
                first |-> learning_rate_function(last.initial_rate, 0)]
    /\ pc' = "learning_rate"
    /\ UNCHANGED <<player1, player2, iterations, it, training_board,
                   prev_board1, prev_board2, files, result, shown>>

ExplorationRate ==
    /\ pc = "rate"
    /\ last' = [op |-> "exploration_rate_function",
                initial_rate |-> last.initial_rate, iteration |-> it,
                rate |-> exploration_rate_function(last.initial_rate, it),
                next |-> exploration_rate_function(last.initial_rate, it + 1),
                first |-> exploration_rate_function(last.initial_rate, 0)]
    /\ pc' = "exploration_rate"
    /\ UNCHANGED <<player1, player2, iterations, it, training_board,
                   prev_board1, prev_board2, files, result, shown>>

AnnealNext == LearningRate \/ ExplorationRate

SpecAnneal == AnnealInit /\ [][AnnealNext]_vars

----------------------------------------------------------------------------
(* One Player and one file: save_player_state on the file, new_from_file   *)
(* on it, or one after the other.  The file is absent at first, or holds   *)
(* the encoding of a Player, whole or damaged.                             *)

\* Players to save: made by Player::new, or after a first move, a lost
\* state and many iterations
FilePlayers ==
    UNION { { new(piece, <<3, 4>>, <<1, 2>>),
              update_iteration(
                  show_loosing_state(
                      make_move(new(piece, <<3, 4>>, <<1, 2>>), EmptyBoard,
                                RngWidth - 1, 0).self,
                      Put(EmptyBoard, 4, piece)),
                  300) } : piece \in Sides }

\* Ways for the encoding of save_state not to be one: cut short, followed
\* by one more byte, or with a byte that is no discriminant of a Piece where
\* one is read (the piece, the first and the last cell of the first key)
Damages(save_state) ==
    {[kind |-> "truncated", at |-> n, byte |-> 0] :
        n \in 0..(EncodedLen(save_state) - 1)}
    \cup {[kind |-> "trailing", at |-> 0, byte |-> 0]}
    \cup {[kind |-> "byte", at |-> n, byte |-> b] :
            n \in {1} \cup (IF DOMAIN save_state.state_space = {} THEN {}
                            ELSE {6, 14}),
            b \in {3, 255}}

FilesAtStart ==
    {NoFile}
    \cup {[exists |-> TRUE, complete |-> TRUE, written |-> save_state,
            damage |-> NoDamage] : save_state \in FilePlayers}
    \cup UNION { {[exists |-> TRUE, complete |-> FALSE, written |-> save_state,
                   damage |-> damage] : damage \in Damages(save_state)} :
                 save_state \in FilePlayers }

FileInit ==
    /\ player1 \in FilePlayers
    /\ player2 = new("Empty", <<3, 4>>, <<0, 1>>)
    /\ iterations = 0
    /\ it = 0
    /\ training_board = Board_new
    /\ prev_board1 = EmptyBoard
    /\ prev_board2 = EmptyBoard
    /\ \E file \in FilesAtStart :
          files = [NoFiles EXCEPT ![player_x_file_path] = file]
    /\ result = NoResult
    /\ pc = "start"
    /\ last = NoCall
    /\ shown = NoCall

\* player1.save_player_state(path); &self leaves the player as it is
Save ==
    /\ pc = "start"
    /\ \E io \in IoOutcomes :
        \E saved \in { save_player_state(player1, files[player_x_file_path],
                                          io) } :
          /\ files' = [files EXCEPT ![player_x_file_path] = saved.file]
          /\ last' = [op |-> "save_player_state", before |-> player1,
                      io |-> io, result |-> saved.result,
                      file |-> files[player_x_file_path]]
    /\ pc' = "saved"
    /\ UNCHANGED <<player1, player2, iterations, it, training_board,
                   prev_board1, prev_board2, result, shown>>

\* new_from_file(path, ...); the Player it returns, if any, is loaded.player
Load ==
    /\ pc \in {"start", "saved"}
    /\ \E loaded \in { new_from_file(files[player_x_file_path]) } :
          last' = [op |-> "new_from_file", file |-> files[player_x_file_path],
                   loaded |-> loaded]
    /\ pc' = "loaded"
    /\ UNCHANGED <<player1, player2, iterations, it, training_board,
                   prev_board1, prev_board2, files, result, shown>>

FileNext == Save \/ Load

SpecFile == FileInit /\ [][FileNext]_vars

----------------------------------------------------------------------------
(* Trainer::train on two players read from files that an earlier save      *)
(* wrote: their tables and iteration counters are those of the files.      *)

LoadedPlayers ==
    { new_from_file([exists |-> TRUE, complete |-> TRUE,
                     written |-> save_state, damage |-> NoDamage]).player :
        save_state \in FilePlayers }

ReloadInit ==
    /\ player1 \in LoadedPlayers
    /\ player2 \in LoadedPlayers
    /\ iterations \in 0..MaxFairIterations
    /\ it = 0
    /\ training_board = Board_new
    /\ prev_board1 = EmptyBoard
    /\ prev_board2 = EmptyBoard
    /\ files = NoFiles
    /\ result = NoResult
    /\ pc = "train"
    /\ last = NoCall
    /\ shown = NoCall

SpecReload == ReloadInit /\ [][Next]_vars

----------------------------------------------------------------------------
(* One call of Board::player_move, on a board with some squares taken,     *)
(* with a move specification of up to MaxSpecLen chars and a piece str.    *)

\* chars of a move specification: rows, columns and others
SpecChars == {"a", "B", "c", "d", "1", "3", "4"}

MoveSpecs == UNION { [1..n -> SpecChars] : n \in 0..MaxSpecLen }

PieceSpecs == {"X", "x", "O", "o", "z", "", "XO"}

\* boards with any of these squares taken: a1, b2, c3, a3
BoardsAtStart ==
    { [row \in 1..3 |-> [col \in 1..3 |->
          IF <<row, col>> \in taken
          THEN (IF row = col THEN "X" ELSE "O") ELSE "Empty"]] :
      taken \in SUBSET {<<1, 1>>, <<2, 2>>, <<3, 3>>, <<1, 3>>} }

BoardInit ==
    /\ player1 = new("X", <<3, 4>>, <<0, 1>>)
    /\ player2 = new("O", <<3, 4>>, <<0, 1>>)
    /\ iterations = 0
    /\ it = 0
    /\ training_board \in BoardsAtStart
    /\ prev_board1 = EmptyBoard
    /\ prev_board2 = EmptyBoard
    /\ files = NoFiles
    /\ result = NoResult
    /\ pc = "board"
    /\ \E move_specification \in MoveSpecs,
          piece_specification \in PieceSpecs :
          last = [op |-> "none", move_specification |-> move_specification,
                  piece_specification |-> piece_specification]
    /\ shown = NoCall

PlayerMove ==
    /\ pc = "board"
    /\ \E res \in { player_move(training_board, last.move_specification,
                                  last.piece_specification) } :
          /\ training_board' = res.squares
          /\ last' = [op |-> "player_move", before |-> training_board,
                      move_specification |-> last.move_specification,
                      piece_specification |-> last.piece_specification,
                      panic |-> res.panic, result |-> res.result]
          /\ pc' = IF res.panic THEN "panicked" ELSE "moved"
    /\ UNCHANGED <<player1, player2, iterations, it, prev_board1,
                   prev_board2, files, result, shown>>

BoardNext == PlayerMove

SpecBoard == BoardInit /\ [][BoardNext]_vars

----------------------------------------------------------------------------
(* Properties.  The notions they are stated in are defined here from the   *)
(* rules of the game, not from the Player's own predicates.                *)

\* the eight lines of the board, as sets of cell numbers
Lines ==
    {{0, 1, 2}, {3, 4, 5}, {6, 7, 8}, {0, 3, 6}, {1, 4, 7}, {2, 5, 8},
     {0, 4, 8}, {2, 4, 6}}

HoldsLine(compact_state, side) ==
    \E line \in Lines : \A i \in line : At(compact_state, i) = side

Opponent(side) == IF side = "X" THEN "O" ELSE "X"

NoEmptyCell(compact_state) == \A i \in 0..8 : At(compact_state, i) # "Empty"

\* at most one side holds a line, as in every position of a game
OneWinnerAtMost(compact_state) ==
    ~(HoldsLine(compact_state, "X") /\ HoldsLine(compact_state, "O"))

\* C1: when the player's own side holds a complete row, column or diagonal
\* of a state (and the other side holds none), the first evaluation of the
\* state stores and returns exactly 1.0, whatever the other cells hold.
OwnLineIsOne ==
    (/\ pc = "scored"
     /\ OneWinnerAtMost(last.evaluated)
     /\ HoldsLine(last.evaluated, player1.piece))
    => /\ last.probability = One
       /\ player1.state_space[Key(last.evaluated)] = One

\* C2: when the opponent holds a complete line of a state, or the state is
\* full and nobody holds a line, the first evaluation stores and returns
\* exactly 0.0; a full state with a line of the player's own side is still
\* 1.0.
LossOrDrawIsZero ==
    (pc = "scored" /\ OneWinnerAtMost(last.evaluated))
    => /\ (\/ HoldsLine(last.evaluated, Opponent(player1.piece))
           \/ /\ NoEmptyCell(last.evaluated)
              /\ ~HoldsLine(last.evaluated, player1.piece))
          => /\ last.probability = Zero
             /\ player1.state_space[Key(last.evaluated)] = Zero
       /\ (NoEmptyCell(last.evaluated)
              /\ HoldsLine(last.evaluated, player1.piece))
          => /\ last.probability = One
             /\ player1.state_space[Key(last.evaluated)] = One

NonTerminal(compact_state) ==
    /\ ~HoldsLine(compact_state, "X")
    /\ ~HoldsLine(compact_state, "O")
    /\ ~NoEmptyCell(compact_state)

\* C3: a state with no line of either side and an empty cell, not yet in
\* the table, is inserted at 0.5 by its first evaluation, which returns 0.5;
\* the next evaluation returns the same 0.5 and leaves the table as it was.
DefaultIsHalf ==
    (pc \in {"scored", "scored_again"} /\ NonTerminal(last.evaluated))
    => /\ last.probability = Half
       /\ Key(last.evaluated) \in DOMAIN player1.state_space
       /\ player1.state_space[Key(last.evaluated)] = Half
       /\ pc = "scored"
            => Key(last.evaluated) \notin DOMAIN last.before.state_space
       /\ pc = "scored_again"
            => player1.state_space = last.before.state_space

DefaultIsHalfWitness ==
    /\ pc = "scored_again"
    /\ NonTerminal(last.evaluated)
    /\ last.probability = Half
    /\ last.before.state_space[Key(last.evaluated)] = Half

\* C10: check_winner returns Some(S) exactly when side S holds three equal
\* markers in a row, a column or a diagonal, S being the side that holds
\* the line; it returns None otherwise and never Some(Empty).
CheckWinnerExact ==
    (pc = "scored" /\ OneWinnerAtMost(last.evaluated))
    => /\ \A side \in Sides :
            check_winner(last.evaluated) = side
                <=> HoldsLine(last.evaluated, side)
       /\ check_winner(last.evaluated) # "Empty"
       /\ (~HoldsLine(last.evaluated, "X") /\ ~HoldsLine(last.evaluated, "O"))
            => check_winner(last.evaluated) = "None"

\* the largest value of a non-empty sequence of values
Largest(values) ==
    CHOOSE m \in {values[i] : i \in 1..Len(values)} :
        \A i \in 1..Len(values) : values[i] <= m

\* the player that made the call recorded in `call`, as it is now
Caller(call) == IF call.who = 1 THEN player1 ELSE player2

\* the value a state has in a table, 0.5 when the table does not hold it
\* and the state is not terminal
ValueIn(state_space, compact_state) ==
    IF Key(compact_state) \in DOMAIN state_space
    THEN state_space[Key(compact_state)]
    ELSE Half

\* C4: every value stored in a player's table is in [0, 1], whatever moves
\* and losing states a training run with a learning rate in [0, 1] brings.
ValuesInUnitInterval ==
    \A self \in {player1, player2} :
        \A key \in DOMAIN self.state_space :
            Zero <= self.state_space[key] /\ self.state_space[key] <= One

ValuesInUnitIntervalWitness ==
    \E self \in {player1, player2} :
        \E key \in DOMAIN self.state_space :
            /\ Zero < self.state_space[key]
            /\ self.state_space[key] < One
            /\ self.state_space[key] # Half

\* C5: a make_move that takes the greedy path on state s changes the stored
\* value of s from old to old + lr * (v_max - old), v_max being the largest
\* value among the candidate next states; with lr = 0 the value is
\* unchanged and with lr = 1 it equals v_max.
GreedyUpdate ==
    (last.op = "make_move" /\ ~last.explored /\ ~last.panic)
    => LET lr == last.before.initial_learning_rate
           old == ValueIn(last.before.state_space, last.board_state)
           v_max == Largest(last.probabilities)
           now == Caller(last).state_space[Key(last.board_state)]
       IN  /\ now * lr[2] = old * lr[2] + lr[1] * (v_max - old)
           /\ lr[1] = 0 => now = old
           /\ lr[1] = lr[2] => now = v_max

GreedyUpdateWitness ==
    /\ last.op = "make_move"
    /\ ~last.explored
    /\ ~last.panic
    /\ last.before.initial_learning_rate = <<3, 4>>
    /\ Key(last.board_state) \in DOMAIN last.before.state_space
    /\ Largest(last.probabilities) = One
    /\ last.before.state_space[Key(last.board_state)] < One
    /\ Caller(last).state_space[Key(last.board_state)]
         > last.before.state_space[Key(last.board_state)]

\* C6: train called with two players of the same side returns
\* InvalidPlayers before any episode: no table and no iteration counter has
\* changed, no move was made and no file was written.
SameSideIsRejected ==
    (get_player_piece(player1) = get_player_piece(player2))
    => /\ pc \in {"train", "returned"}
       /\ pc = "returned"
            => result = [tag |-> "Err", error |-> "InvalidPlayers"]
       /\ \A self \in {player1, player2} :
            DOMAIN self.state_space = {} /\ self.iteration = 0
       /\ it = 0
       /\ last = NoCall
       /\ shown = NoCall
       /\ files = NoFiles

SameSideIsRejectedWitness ==
    /\ get_player_piece(player1) = get_player_piece(player2)
    /\ iterations > 0
    /\ pc = "returned"
    /\ result = [tag |-> "Err", error |-> "InvalidPlayers"]

\* the players as train saves them: the one that plays X, the one that
\* plays O
SavedAt(path) ==
    IF (path = player_x_file_path) <=> (player1.piece = "X")
    THEN player1 ELSE player2

\* C7: new_from_file on a file written by save_player_state gives a player
\* with the same side, the same table (keys and values), the same initial
\* learning and exploration rates and the same iteration counter, for every
\* player a training run ends with, when the file system has done the writes
\* of the save.
SaveLoadRoundTrip ==
    (pc = "returned" /\ result.tag = "Ok")
    => \A path \in {player_x_file_path, player_o_file_path} :
         files[path].complete =>
         \E loaded \in { new_from_file(files[path]) } :
            /\ loaded.tag = "Ok"
            /\ loaded.player.piece = SavedAt(path).piece
            /\ loaded.player.state_space = SavedAt(path).state_space
            /\ loaded.player.initial_learning_rate
                 = SavedAt(path).initial_learning_rate
            /\ loaded.player.initial_exploration_rate
                 = SavedAt(path).initial_exploration_rate
            /\ loaded.player.iteration = SavedAt(path).iteration

SaveLoadRoundTripWitness ==
    /\ pc = "returned"
    /\ result.tag = "Ok"
    /\ player1.iteration > 0
    /\ \E key \in DOMAIN player1.state_space :
         player1.state_space[key] \notin {Zero, Half, One}
    /\ files[player_x_file_path].complete
    /\ new_from_file(files[player_x_file_path]).tag = "Ok"
    /\ new_from_file(files[player_x_file_path]).player.state_space
         = SavedAt(player_x_file_path).state_space

\* the cells in which two states differ
Differ(a, b) == {i \in 0..8 : At(a, i) # At(b, i)}

\* C8: after an episode that a side wins, the loser is shown the board as it
\* stood just after the loser's own previous move (the final board without
\* the winner's last marker), and with a learning rate above 0 its value
\* for that board, when above 0, is strictly lower after show_loosing_state
\* than before; a board at the default 0.5 ends below 0.5.
LoserValueDecreases ==
    (shown.op = "show_loosing_state")
    => LET loser == Caller(shown)
           lr == shown.before.initial_learning_rate
           old == ValueIn(shown.before.state_space, shown.compact_state)
           now == loser.state_space[Key(shown.compact_state)]
       IN  /\ HoldsLine(shown.winner_board, Opponent(loser.piece))
           /\ \E i \in 0..8 :
                /\ Differ(shown.compact_state, shown.winner_board) = {i}
                /\ At(shown.compact_state, i) = "Empty"
                /\ At(shown.winner_board, i) = Opponent(loser.piece)
           /\ \E i \in 0..8 : At(shown.compact_state, i) = loser.piece
           /\ (lr[1] > 0 /\ old > Zero) => now < old
           /\ (lr[1] > 0 /\ old = Half) => now < Half

LoserValueDecreasesWitness ==
    /\ shown.op = "show_loosing_state"
    /\ shown.before.initial_learning_rate = <<3, 4>>
    /\ Key(shown.compact_state) \in DOMAIN shown.before.state_space
    /\ shown.before.state_space[Key(shown.compact_state)] = Half
    /\ Caller(shown).state_space[Key(shown.compact_state)] < Half
    /\ Caller(shown).state_space[Key(shown.compact_state)] > Zero

\* C9: on a board with at least one empty cell make_move, on the greedy
\* and on the exploratory path, returns a pair (row, col) with row and col
\* in 0..2 and cell 3 * row + col of the given board empty.
MoveIsLegal ==
    (last.op = "make_move" /\ ~NoEmptyCell(last.board_state))
    => /\ ~last.panic
       /\ last.move[1] \in 0..2
       /\ last.move[2] \in 0..2
       /\ At(last.board_state, 3 * last.move[1] + last.move[2]) = "Empty"

MoveIsLegalWitness ==
    /\ last.op = "make_move"
    /\ last.explored
    /\ ~last.panic
    /\ \E i \in 0..8 : At(last.board_state, i) = "X"
    /\ \E i \in 0..8 : At(last.board_state, i) = "O"
    /\ Cardinality({i \in 0..8 : At(last.board_state, i) = "Empty"}) > 1
    /\ At(last.board_state, 3 * last.move[1] + last.move[2]) = "Empty"

\* the player of the given side
PlayerOf(side) == IF player1.piece = side THEN player1 ELSE player2

\* C11: when train returns Ok, it returns the pair (player_x_save.ttr,
\* player_o_save.ttr) of its output directory, the first file holds the
\* saved state of the player whose piece is X and the second that of the
\* player whose piece is O, whichever of them was passed first.
TrainReturnsXThenO ==
    (pc = "returned" /\ result.tag = "Ok")
    => /\ result.paths = <<"player_x_save.ttr", "player_o_save.ttr">>
       /\ files[result.paths[1]].exists
       /\ files[result.paths[1]].written.piece = "X"
       /\ files[result.paths[1]].written = PlayerOf("X")
       /\ files[result.paths[2]].exists
       /\ files[result.paths[2]].written.piece = "O"
       /\ files[result.paths[2]].written = PlayerOf("O")

TrainReturnsXThenOWitness ==
    /\ pc = "returned"
    /\ result.tag = "Ok"
    /\ player1.piece = "O"
    /\ player2.piece = "X"
    /\ iterations > 0
    /\ files["player_x_save.ttr"].complete
    /\ files["player_x_save.ttr"].written = player2
    /\ DOMAIN player2.state_space # {}

\* a rate <<num, den>> compared with another
RateLeq(a, b) == a[1] * b[2] <= b[1] * a[2]

RateEq(a, b) == a[1] * b[2] = b[1] * a[2]

\* C12: for the learning schedule (decay 0.9 every 20 iterations) and the
\* exploration schedule (decay 0.9 every 10 iterations) with an initial rate
\* that is not negative, the rate at iteration 0 is the initial rate, the
\* rate is the same at two iterations of one step window, and the rate at
\* iteration i + 1 is at most the rate at iteration i.
AnnealingSchedule ==
    (last.op \in {"learning_rate_function", "exploration_rate_function"})
    => LET window == IF last.op = "learning_rate_function" THEN 20 ELSE 10
       IN  /\ RateEq(last.first, last.initial_rate)
           /\ RateLeq(last.next, last.rate)
           /\ ((last.iteration + 1) \div window = last.iteration \div window)
                => RateEq(last.next, last.rate)

AnnealingScheduleWitness ==
    /\ last.op = "exploration_rate_function"
    /\ last.iteration = 29
    /\ last.initial_rate = <<1, 5>>
    /\ ~RateEq(last.next, last.rate)
    /\ RateLeq(last.next, last.rate)
    /\ ~RateEq(last.rate, last.initial_rate)

\* the file train writes for the player of the given side
FileOf(side) ==
    IF side = "X" THEN files[player_x_file_path] ELSE files[player_o_file_path]

\* C13: train of two fresh players of pieces X and O for 0 iterations, on
\* a file system that does its writes, returns Ok and leaves two files
\* that hold an empty table, the initial learning and exploration rates
\* given to Player::new and the iteration counter 0.
ZeroEpisodes ==
    (/\ pc = "returned"
     /\ iterations = 0
     /\ player1.piece # player2.piece
     /\ files[player_x_file_path].complete
     /\ files[player_o_file_path].complete)
    => /\ result = [tag |-> "Ok",
                    paths |-> <<player_x_file_path, player_o_file_path>>]
       /\ \E loaded1 \in { new_from_file(FileOf(player1.piece)) },
             loaded2 \in { new_from_file(FileOf(player2.piece)) } :
            /\ loaded1.tag = "Ok" /\ loaded2.tag = "Ok"
            /\ loaded1.player.piece = player1.piece
            /\ loaded2.player.piece = player2.piece
            /\ DOMAIN loaded1.player.state_space = {}
            /\ DOMAIN loaded2.player.state_space = {}
            /\ loaded1.player.iteration = 0
            /\ loaded2.player.iteration = 0
            /\ <<loaded1.player.initial_learning_rate,
                  loaded1.player.initial_exploration_rate,
                  loaded2.player.initial_exploration_rate>> \in TrainRates
            /\ loaded2.player.initial_learning_rate
                 = loaded1.player.initial_learning_rate
            /\ loaded1.player.initial_learning_rate
                 = player1.initial_learning_rate
            /\ loaded1.player.initial_exploration_rate
                 = player1.initial_exploration_rate
            /\ loaded2.player.initial_exploration_rate
                 = player2.initial_exploration_rate

ZeroEpisodesWitness ==
    /\ pc = "returned"
    /\ iterations = 0
    /\ player1.piece = "O"
    /\ player2.piece = "X"
    /\ result.tag = "Ok"
    /\ files[player_x_file_path].complete
    /\ files[player_o_file_path].complete
    /\ player2.initial_exploration_rate = <<1, 1>>
    /\ new_from_file(files[player_x_file_path]).tag = "Ok"
    /\ new_from_file(files[player_x_file_path]).player.initial_exploration_rate
         = <<1, 1>>

\* C14: new_from_file gives Err(InvalidFile) when the file cannot be opened
\* and Err(UnableToRead) when it opens but its bytes are not the encoding of
\* a SaveState; in both cases it returns the error alone, with no Player
\* and no part of a decoded state.  A file that holds a whole encoding
\* gives the Player that was saved.
LoadFailsCleanly ==
    (last.op = "new_from_file")
    => /\ ~last.file.exists
            => last.loaded = [tag |-> "Err", error |-> "InvalidFile"]
       /\ (last.file.exists /\ ~last.file.complete)
            => last.loaded = [tag |-> "Err", error |-> "UnableToRead"]
       /\ last.loaded.tag = "Err" => DOMAIN last.loaded = {"tag", "error"}
       /\ (last.file.exists /\ last.file.complete)
            => last.loaded = [tag |-> "Ok", player |-> last.file.written]

LoadFailsCleanlyWitness ==
    /\ last.op = "new_from_file"
    /\ last.file.exists
    /\ last.file.damage.kind = "truncated"
    /\ last.file.damage.at > 25
    /\ last.loaded = [tag |-> "Err", error |-> "UnableToRead"]

\* C15: save_player_state gives Err(InvalidFile) when the file cannot be
\* created and Err(UnableToSave) when a write fails; it returns Ok only
\* when the file holds the whole encoding of the player; and it leaves the
\* player as it was.
SaveIsFaithful ==
    (pc = "saved" /\ last.op = "save_player_state")
    => /\ last.io.kind = "create_fails" => last.result = "Err(InvalidFile)"
       /\ last.io.kind = "write_fails" => last.result = "Err(UnableToSave)"
       /\ last.result = "Ok"
            => /\ files[player_x_file_path].exists
               /\ FileBytes(files[player_x_file_path])
                    = borsh_serialize(last.before)
       /\ player1 = last.before

\* the row and the column a move specification names, when it starts with
\* a row letter and a column digit
NamesSquare(move_specification) ==
    /\ Len(move_specification) >= 2
    /\ move_specification[1] \in {"a", "A", "b", "B", "c", "C"}
    /\ move_specification[2] \in {"1", "2", "3"}

RowNamed(move_specification) ==
    CHOOSE row \in 1..3 :
        move_specification[1] \in <<{"a", "A"}, {"b", "B"}, {"c", "C"}>>[row]

ColNamed(move_specification) ==
    CHOOSE col \in 1..3 : move_specification[2] = <<"1", "2", "3">>[col]

\* C16: Board::player_move returns an error and leaves the board as it was
\* for every input it rejects: InvalidMove when the move specification
\* does not name a row a-c followed by a column 1-3 (a specification of
\* fewer than two chars included), NotEmpty when the square named is
\* taken, InvalidPiece when the piece str is not X, x, O or o; otherwise it
\* returns Ok and exactly the square named goes from Empty to the piece.
PlayerMoveChecked ==
    (last.op = "player_move")
    => LET spec == last.move_specification
           piece == IF last.piece_specification \in {"X", "x"} THEN "X"
                    ELSE IF last.piece_specification \in {"O", "o"} THEN "O"
                    ELSE "Empty"
       IN  /\ ~last.panic
           /\ last.result # "Ok" => training_board = last.before
           /\ ~NamesSquare(spec) => last.result = "Err(InvalidMove)"
           /\ NamesSquare(spec) =>
                LET row == RowNamed(spec)
                    col == ColNamed(spec)
                IN  /\ last.before[row][col] # "Empty"
                         => last.result = "Err(NotEmpty)"
                    /\ (last.before[row][col] = "Empty" /\ piece = "Empty")
                         => last.result = "Err(InvalidPiece)"
                    /\ (last.before[row][col] = "Empty" /\ piece # "Empty")
                         => /\ last.result = "Ok"
                            /\ training_board =
                                 [last.before EXCEPT ![row][col] = piece]

\* the empty cells of a state
EmptyCells(compact_state) == {i \in 0..8 : At(compact_state, i) = "Empty"}

\* the value the caller's table now has for the state reached from the
\* board of the call by the caller's piece on cell i
CandidateValue(call, i) ==
    Caller(call).state_space[Key(Put(call.board_state, i, Caller(call).piece))]

\* the cell the move returned by the call names
MoveCell(call) == 3 * call.move[1] + call.move[2]

\* C17: on the greedy path the move make_move returns leads to a candidate
\* next state whose table value is the largest of the table values of all
\* the candidate next states of the board.
GreedyPicksMaximum ==
    (last.op = "make_move" /\ ~last.explored /\ ~last.panic)
    => /\ MoveCell(last) \in EmptyCells(last.board_state)
       /\ \A i \in EmptyCells(last.board_state) :
            CandidateValue(last, i) <= CandidateValue(last, MoveCell(last))

GreedyPicksMaximumWitness ==
    /\ last.op = "make_move"
    /\ ~last.explored
    /\ ~last.panic
    /\ CandidateValue(last, MoveCell(last)) = One
    /\ \E i \in EmptyCells(last.board_state) : CandidateValue(last, i) = Half
    /\ \E i \in EmptyCells(last.board_state) : CandidateValue(last, i) = Zero

\* C18: on the exploratory path, when some candidate next state has a
\* value strictly below the largest candidate value, the move returned
\* leads to a candidate whose value is strictly below it; when all the
\* candidates have the same value, the move leads to one of them.
ExplorationAvoidsMaximum ==
    (last.op = "make_move" /\ last.explored /\ ~last.panic)
    => /\ MoveCell(last) \in EmptyCells(last.board_state)
       /\ (\E i, j \in EmptyCells(last.board_state) :
                CandidateValue(last, i) < CandidateValue(last, j))
            => \E j \in EmptyCells(last.board_state) :
                    CandidateValue(last, MoveCell(last))
                        < CandidateValue(last, j)

ExplorationAvoidsMaximumWitness ==
    /\ last.op = "make_move"
    /\ last.explored
    /\ ~last.panic
    /\ CandidateValue(last, MoveCell(last)) = Half
    /\ \E j \in EmptyCells(last.board_state) : CandidateValue(last, j) = One
    /\ \E j \in EmptyCells(last.board_state) : CandidateValue(last, j) = Zero

\* the keys of the candidate next states of a call
CandidateKeys(call) ==
    { Key(Put(call.board_state, i, call.before.piece)) :
        i \in EmptyCells(call.board_state) }

\* C19: a make_move call changes the stored value of no key that was in
\* the table before it, except possibly that of the current state; on the
\* exploratory path it changes no stored value, it does not insert the
\* current state, and every entry it adds is the entry of a candidate state
\* at the value a new entry starts with.
MoveKeepsOtherValues ==
    last.op = "make_move"
    => LET before == last.before.state_space
           now == Caller(last).state_space
           current == Key(last.board_state)
       IN  /\ \A k \in DOMAIN before :
                /\ k \in DOMAIN now
                /\ (k # current \/ last.explored) => now[k] = before[k]
           /\ last.explored =>
                /\ current \in DOMAIN now => current \in DOMAIN before
                /\ DOMAIN now \ DOMAIN before \subseteq CandidateKeys(last)
                /\ \A i \in EmptyCells(last.board_state) :
                     LET next_state ==
                             Put(last.board_state, i, last.before.piece)
                     IN  Key(next_state) \notin DOMAIN before
                         => now[Key(next_state)] =
                              find_new_state_prob(last.before.piece, next_state)

MoveKeepsOtherValuesWitness ==
    /\ last.op = "make_move"
    /\ last.explored
    /\ ~last.panic
    /\ Key(last.board_state) \notin DOMAIN Caller(last).state_space
    /\ DOMAIN Caller(last).state_space # DOMAIN last.before.state_space
    /\ \E k \in DOMAIN last.before.state_space :
         last.before.state_space[k] \notin {Zero, Half, One}

\* the tables of the two players
Tables == <<player1.state_space, player2.state_space>>

\* after a make_move call every candidate next state of its board is a key
\* of the caller's table, at the value it had before the call when it was
\* a key already
CandidatesAreKept ==
    (last.op = "make_move" /\ ~last.panic)
    => /\ CandidateKeys(last) \subseteq DOMAIN Caller(last).state_space
       /\ \A k \in CandidateKeys(last) \cap DOMAIN last.before.state_space :
            Caller(last).state_space[k] = last.before.state_space[k]

\* a step removes no key from a table
KeysAreKept ==
    \A p \in 1..2 : DOMAIN Tables[p] \subseteq DOMAIN Tables'[p]

\* C20: after a make_move call on a state every candidate next state of it
\* is a key of the caller's table, and over any sequence of operations no
\* key leaves a table and no candidate entry that was there is replaced by
\* a new one.
TableOnlyGrows == []CandidatesAreKept /\ [][KeysAreKept]_vars

TableOnlyGrowsWitness ==
    /\ last.op = "make_move"
    /\ ~last.panic
    /\ \E k \in CandidateKeys(last) \cap DOMAIN last.before.state_space :
         /\ Caller(last).state_space[k] \notin {Zero, Half, One}
         /\ Caller(last).state_space[k] = last.before.state_space[k]
    /\ CandidateKeys(last) \ DOMAIN last.before.state_space # {}

\* the number of cells of a state that hold a piece
CountOf(compact_state, piece) ==
    Cardinality({i \in 0..8 : At(compact_state, i) = piece})

\* C21: in every training episode the first move is made by the player
\* whose piece is X and the two players then move in turn, so the number
\* of X on the board minus the number of O is 0 or 1 at every point.
XMovesFirst ==
    /\ (last.op = "make_move" /\ last.board_state = EmptyBoard)
         => last.before.piece = "X"
    /\ CountOf(get_compact_state(training_board), "X")
         - CountOf(get_compact_state(training_board), "O") \in {0, 1}

\* what does hold: the first argument of train moves first
Player1MovesFirst ==
    /\ (last.op = "make_move" /\ last.board_state = EmptyBoard)
         => last.who = 1
    /\ CountOf(get_compact_state(training_board), player1.piece)
         - CountOf(get_compact_state(training_board), player2.piece)
            \in {0, 1}

\* C22: whenever the trainer calls show_loosing_state on the loser of an
\* episode, the state passed is the board as it stood right after the
\* loser's own latest move: the final board without the winner's last
\* piece.
LoserSeesOwnLastBoard ==
    shown.op = "show_loosing_state"
    => LET loser == shown.before.piece
           winner == Opponent(loser)
           first == player1.piece
           second == player2.piece
       IN  /\ \E i \in EmptyCells(shown.compact_state) :
                Put(shown.compact_state, i, winner) = shown.winner_board
           /\ CountOf(shown.compact_state, loser) >= 1
           /\ CountOf(shown.compact_state, first)
                - CountOf(shown.compact_state, second)
                    = IF shown.who = 1 THEN 1 ELSE 0

LoserSeesOwnLastBoardWitness ==
    /\ shown.op = "show_loosing_state"
    /\ shown.who = 1
    /\ CountOf(shown.winner_board, player2.piece) = 3
    /\ HoldsLine(shown.winner_board, player2.piece)

\* the side that holds a line of the state, "None" when neither does
WinnerOf(compact_state) ==
    IF HoldsLine(compact_state, "X") THEN "X"
    ELSE IF HoldsLine(compact_state, "O") THEN "O"
    ELSE "None"

\* a step that ends an episode calls show_loosing_state when the final
\* board has a winner, on the loser and with the winning move on the board,
\* and makes no call when the episode is drawn; no other step makes a call
ShowsLoserAtEnd ==
    IF it' = it + 1
    THEN LET final == get_compact_state(training_board')
         IN  IF WinnerOf(final) # "None"
             THEN /\ shown' # shown
                  /\ shown'.op = "show_loosing_state"
                  /\ shown'.before.piece = Opponent(WinnerOf(final))
                  /\ shown'.before.piece # last'.before.piece
                  /\ shown'.before.iteration = it
                  /\ shown'.winner_board = final
             ELSE /\ NoEmptyCell(final)
                  /\ shown' = shown
    ELSE shown' = shown

\* C23: in each training episode show_loosing_state is called exactly once
\* when the episode ends with a winner, on the loser and not on the winner,
\* after the winning move was made on the board; when the episode is drawn
\* it is called on neither player.
ShownOncePerWin == [][ShowsLoserAtEnd]_vars

ShownOncePerWinWitness ==
    /\ it = 2
    /\ shown.op = "show_loosing_state"
    /\ shown.before.iteration = 1
    /\ shown.winner_board = get_compact_state(training_board)
    /\ WinnerOf(shown.winner_board) = Opponent(shown.before.piece)

\* an episode that ended in a draw
DrawnEpisode ==
    /\ pc = "for"
    /\ it >= 1
    /\ NoEmptyCell(get_compact_state(training_board))
    /\ WinnerOf(get_compact_state(training_board)) = "None"

\* both players' counters are the index of the running episode
BothAtEpisode == player1.iteration = it /\ player2.iteration = it

\* episode `it` starts on an empty board, both counters are `it` whenever a
\* move is to be selected, and after a run of n >= 1 episodes the two
\* saved counters are n - 1
EpisodeIndexInState ==
    /\ (pc = "p1" /\ prev_board1 = EmptyBoard)
         => get_compact_state(training_board) = EmptyBoard
    /\ pc \in {"p1", "p2"} => BothAtEpisode
    /\ (pc = "returned" /\ result.tag = "Ok" /\ iterations >= 1)
         => \A path \in {player_x_file_path, player_o_file_path} :
              /\ files[path].exists
              /\ files[path].written.iteration = iterations - 1

\* a step that makes a make_move or a show_loosing_state call makes it
\* with both counters at the index of the running episode
EpisodeIndexInCalls ==
    /\ last' # last => (BothAtEpisode /\ last'.before.iteration = it)
    /\ shown' # shown => (BothAtEpisode /\ shown'.before.iteration = it)

Pieces(squares) == 9 - CountOf(get_compact_state(squares), "Empty")

\* the episode on the board is over: a line is held or no cell is empty
EpisodeOver(squares) ==
    \/ WinnerOf(get_compact_state(squares)) # "None"
    \/ NoEmptyCell(get_compact_state(squares))

\* a move is selected only in an episode that is not over and puts one more
\* piece on the board; the episode goes on exactly when the board after
\* the move is not over; the episode index steps by one at the end of an
\* episode and at no other step; an episode is entered only below the
\* episode count
EpisodeSteps ==
    /\ last' # last =>
         /\ ~EpisodeOver(training_board)
         /\ Pieces(training_board') = Pieces(training_board) + 1
         /\ Pieces(training_board') <= 9
         /\ it' = (IF EpisodeOver(training_board') THEN it + 1 ELSE it)
         /\ pc' = (IF EpisodeOver(training_board') THEN "for"
                   ELSE IF pc = "p1" THEN "p2" ELSE "p1")
    /\ last' = last => it' = it
    /\ (pc = "for" /\ pc' = "p1") => it < iterations
    /\ iterations' = iterations

\* train returns from the save only after `iterations` episodes
AllEpisodesPlayed ==
    (pc = "returned" /\ result # [tag |-> "Err", error |-> "InvalidPlayers"])
    => it = iterations

\* C25: every training episode ends after at most 9 moves, by a win or a
\* full board; train with episode count n plays exactly n episodes and
\* then returns; no episode goes on forever.
TrainTerminates ==
    /\ []AllEpisodesPlayed
    /\ [][EpisodeSteps]_vars
    /\ <>(pc = "returned")

TrainTerminatesWitness ==
    /\ pc = "returned"
    /\ result.tag = "Ok"
    /\ iterations = MaxFairIterations
    /\ it = MaxFairIterations
    /\ Pieces(training_board) = 9
    /\ WinnerOf(get_compact_state(training_board)) = "None"

\* the cells in which two states differ
DifferAt(state1, state2) == {c \in 0..8 : At(state1, c) # At(state2, c)}

\* C26: during move scoring every candidate state that is evaluated
\* differs from the current state in exactly one cell, an empty cell that
\* now holds the player's piece; the scratch copy is the current state
\* again after the candidates, and the state passed to make_move is not
\* modified.
CandidatesDifferInOneCell ==
    last.op = "make_move"
    => /\ Len(last.evaluated) = Cardinality(EmptyCells(last.board_state))
       /\ \A idx \in 1..Len(last.evaluated) :
            LET cell == 3 * last.next_moves[idx][1] + last.next_moves[idx][2]
            IN  /\ DifferAt(last.evaluated[idx], last.board_state) = {cell}
                /\ At(last.board_state, cell) = "Empty"
                /\ At(last.evaluated[idx], cell) = last.before.piece
       /\ last.board = last.board_state
       /\ prev_board1 = last.board_state

CandidatesDifferInOneCellWitness ==
    /\ last.op = "make_move"
    /\ ~last.panic
    /\ Len(last.evaluated) = 4
    /\ CountOf(last.board_state, "X") = 3
    /\ CountOf(last.board_state, "O") = 2

\* C27: make_move on a board with no empty cell ends in a panic, on the
\* greedy path and on the exploratory path alike; it returns no move.
FullBoardPanics ==
    (last.op = "make_move" /\ NoEmptyCell(last.board_state))
    => (last.panic /\ pc = "panicked")

FullBoardPanicsWitness ==
    /\ last.op = "make_move"
    /\ NoEmptyCell(last.board_state)
    /\ last.explored
    /\ pc = "panicked"

\* the same on the greedy path
FullBoardPanicsGreedy ==
    /\ last.op = "make_move"
    /\ NoEmptyCell(last.board_state)
    /\ ~last.explored
    /\ pc = "panicked"

\* a board with an empty cell does not make make_move panic
PanicsOnlyWhenFull == pc = "panicked" => NoEmptyCell(last.board_state)

\* C28: train returns Ok only when both players' files were written in
\* full; when saving either player fails, train returns an error.
SaveFailureIsReturned ==
    (pc = "returned" /\ result.tag = "Ok")
    => \A path \in {player_x_file_path, player_o_file_path} :
         /\ files[path].exists
         /\ files[path].complete

\* what does hold: a file that cannot be created makes train return an
\* error
CreateFailureIsReturned ==
    (pc = "returned" /\ result.tag = "Ok")
    => \A path \in {player_x_file_path, player_o_file_path} :
         files[path].exists

\* a step lowers neither player's iteration counter
IterationKept ==
    /\ player1'.iteration >= player1.iteration
    /\ player2'.iteration >= player2.iteration

\* C29: a player's iteration counter never decreases over any sequence of
\* operations on the player.
IterationNeverDecreases == [][IterationKept]_vars

\* the state whose key is k
KeyState(k) ==
    [i \in 1..9 |->
        LET d == (k \div (3 ^ (9 - i))) % 3
        IN  IF d = 0 THEN "Empty" ELSE IF d = 1 THEN "X" ELSE "O"]

\* a side holds a line of the state, or no cell of it is empty
Terminal(compact_state) ==
    \/ HoldsLine(compact_state, "X")
    \/ HoldsLine(compact_state, "O")
    \/ NoEmptyCell(compact_state)

\* a step changes the stored value of no terminal state
TerminalValuesKept ==
    \A p \in 1..2 :
        \A k \in DOMAIN Tables[p] :
            Terminal(KeyState(k))
            => (k \in DOMAIN Tables'[p] /\ Tables'[p][k] = Tables[p][k])

\* the states whose entries are updated, by a greedy move and by
\* show_loosing_state, are not terminal
UpdatedAreNotTerminal ==
    /\ (last.op = "make_move" /\ ~last.explored)
         => ~Terminal(last.board_state)
    /\ shown.op = "show_loosing_state" => ~Terminal(shown.compact_state)

\* C30: the stored value of an entry whose key is a terminal state (a side
\* holds a line, or the board is full) is not modified after its insertion
\* by any operation of a training run: the updates are applied to states
\* that are not terminal.
TerminalEntriesAreFixed ==
    []UpdatedAreNotTerminal /\ [][TerminalValuesKept]_vars

TerminalEntriesAreFixedWitness ==
    /\ pc = "returned"
    /\ iterations = 2
    /\ shown.op = "show_loosing_state"
    /\ shown.before.iteration = 1
    /\ \E k \in DOMAIN shown.before.state_space :
         /\ Terminal(KeyState(k))
         /\ shown.before.state_space[k] = One

\* C31: in training show_loosing_state is never called with the all-empty
\* board: when an episode ends with a winner the loser has made at least
\* one move, and the board it is shown holds at least one piece of each
\* side.
ShownBoardIsNotEmpty ==
    shown.op = "show_loosing_state"
    => /\ shown.compact_state # EmptyBoard
       /\ CountOf(shown.compact_state, shown.before.piece) >= 1
       /\ CountOf(shown.compact_state, Opponent(shown.before.piece)) >= 1

ShownBoardIsNotEmptyWitness ==
    /\ shown.op = "show_loosing_state"
    /\ shown.who = 2
    /\ CountOf(shown.compact_state, "X") = 2
    /\ CountOf(shown.compact_state, "O") = 2

\* the pieces of the first mover on a state minus those of the second
Lead(compact_state) ==
    CountOf(compact_state, player1.piece)
        - CountOf(compact_state, player2.piece)

\* a state on which it is the turn of player p, and one right after a move
\* of player p
OnTurn(p, compact_state) ==
    Lead(compact_state) = (IF p = 1 THEN 0 ELSE 1)

AfterOwnMove(p, compact_state) ==
    Lead(compact_state) = (IF p = 1 THEN 1 ELSE 0)

\* the state of every make_move call is one on which it is the caller's
\* turn and every candidate it scores is one right after a move of the
\* caller
TurnAndCandidateStates ==
    last.op = "make_move"
    => /\ OnTurn(last.who, last.board_state)
       /\ ~AfterOwnMove(last.who, last.board_state)
       /\ \A idx \in 1..Len(last.evaluated) :
            /\ AfterOwnMove(last.who, last.evaluated[idx])
            /\ ~OnTurn(last.who, last.evaluated[idx])

\* a step changes the stored value of a state right after a player's own
\* move only by a show_loosing_state call on that player with that state
CandidateValuesKept ==
    \A p \in 1..2 :
        \A k \in DOMAIN Tables[p] :
            (AfterOwnMove(p, KeyState(k)) /\ Tables'[p][k] # Tables[p][k])
            => /\ shown' # shown
               /\ shown'.who = p
               /\ Key(shown'.compact_state) = k

\* C32: in self-play training the states whose value the greedy-path
\* update changes (boards on which it is the player's turn) and the states
\* the same player scores as candidates (boards right after its own move)
\* are disjoint, so the value of a candidate state is changed only by
\* show_loosing_state and never by the greedy-path update.
GreedyUpdateSparesCandidates ==
    []TurnAndCandidateStates /\ [][CandidateValuesKept]_vars

GreedyUpdateSparesCandidatesWitness ==
    /\ last.op = "make_move"
    /\ ~last.explored
    /\ Key(last.board_state) \in DOMAIN last.before.state_space
    /\ \E idx \in 1..Len(last.probabilities) :
         /\ last.probabilities[idx] \notin {Zero, Half, One}
         /\ Key(last.evaluated[idx]) = Key(shown.compact_state)
         /\ shown.who = last.who

\* C33: in training make_move is never called on a terminal board: at
\* every call the board holds no line and has an empty cell, so the panic
\* of make_move on a full board is not reached from train.
MoveOnLiveBoard ==
    /\ pc # "panicked"
    /\ last.op = "make_move"
        => /\ ~last.panic
           /\ ~HoldsLine(last.board_state, "X")
           /\ ~HoldsLine(last.board_state, "O")
           /\ EmptyCells(last.board_state) # {}

MoveOnLiveBoardWitness ==
    /\ last.op = "make_move"
    /\ Cardinality(EmptyCells(last.board_state)) = 1
    /\ pc = "for"
    /\ WinnerOf(get_compact_state(training_board)) = "None"

====
